---- MODULE Spec2Model ----
(***************************************************************************)
(* Contract v1 verification engine of sfgonsio/AI-Legal-Service.           *)
(*                                                                         *)
(* Part I  : the authorization + audit harness                             *)
(*           (contract/v1/harness/run_harness.py), specification Spec.     *)
(* Part II : the golden run orchestrator and the pin workflow              *)
(*           (contract/v1/golden/run_golden.py, pin_golden_hashes.py,      *)
(*           lib/canonical.py), specification GoldenSpec.                  *)
(*                                                                         *)
(* Python values: None is PyNone, True/False read from the tool registry   *)
(* are PyTrue/PyFalse (kept apart from TLA+ booleans because the registry  *)
(* field `enabled` is three-valued: bool | None).  A SHA-256 digest is     *)
(* modelled as an injective wrapper around the hashed value.               *)
(***************************************************************************)
EXTENDS Integers, Sequences, FiniteSets, TLC

PyNone == "<None>"
PyTrue == "<True>"
PyFalse == "<False>"
Absent == "<absent>"

(* ---------------------------------------------------------------------- *)
(* Part I: run_harness.py                                                  *)
(* ---------------------------------------------------------------------- *)

\* Identifier universes of the capability tables and of the request.
RoleIds == {"R1", "R2"}
LaneIds == {"L1", "L2"}
ToolIds == {"T1"}

\* Longest tool_registry.yaml, in `- tool_name:` entries.
MaxEntries == 1

\* Texts that may follow `enabled:` and `implementation_status:`.
EnabledTexts == {"true", "True", "false"}
StatusTexts == {"implemented", "planned"}

VARIABLES
    request,        \* the request JSON: agent_role, lane_id, tool_name
    roles,          \* set(extract_roles(roles.yaml))
    lanes_allowed,  \* lane_id -> allowed_callers.roles
    lane_tools,     \* lane_id -> allowed_actions.tools
    tool_registry,  \* tool_name -> {enabled, implementation_status}
    pc,             \* position of run_harness.main()
    run_record,     \* the run record dict
    events,         \* the audit event list
    lane_ok, lane_reason,   \* locals of step 2
    allowed, deny_reason,   \* locals of step 4
    out_files,      \* harness/outputs: file name -> written content
    h,              \* run_harness.main(): --now_utc, the wall clock at line 269, the
                    \* timestamp of this invocation; history: the outputs of the
                    \* invocation before it
    \* Part II
    fs,             \* contract/v1 files read and pinned: path -> bytes
    out,            \* golden/out: run id -> tree of that output directory
    env_seed,       \* GOLDEN_SEED of the environment (Absent: unset)
    mode,           \* which command is running: idle (none), harness, run, pin, replay
                    \* or migrate; off in the specifications of the harness alone
    inv,            \* commands invoked so far
    g,              \* locals of run_golden.main()
    p,              \* locals of pin_golden_hashes.main()
    first_run,      \* history: inputs and outputs of the first run that wrote its report,
                    \* read by no action
    \* Part III
    lib,            \* a call of a lib/canonical.py function: its input, position, results
    \* Part IV
    rp,             \* locals of run_replay.main()
    mig             \* locals of migrate_gate8_to_python.main()

hvars == <<request, roles, lanes_allowed, lane_tools, tool_registry, pc,
           run_record, events, lane_ok, lane_reason, allowed, deny_reason,
           out_files, h>>

gvars == <<fs, out, env_seed, mode, inv, g, p, first_run, lib>>

ovars == <<rp, mig>>

vars == <<hvars, gvars, ovars>>

\* hashlib.sha256(canonical_json_bytes(obj)).hexdigest(), collision free.
sha256_hex(obj) == [sha256_of |-> obj]

\* str.lower() on the texts of EnabledTexts.
Lower(s) == IF s = "True" THEN "true" ELSE s

\* dict.get(k, default)
Get(d, k, default) == IF k \in DOMAIN d THEN d[k] ELSE default

\* One `- tool_name:` entry of tool_registry.yaml: the name and the text of
\* its `enabled:` and `implementation_status:` lines (Absent: no such line).
RegistryEntries ==
    [tool_name : ToolIds,
     enabled : EnabledTexts \cup {Absent},
     implementation_status : StatusTexts \cup {Absent}]

RECURSIVE SeqsUpTo(_, _)
SeqsUpTo(S, n) ==
    IF n = 0 THEN {<<>>}
    ELSE LET shorter == SeqsUpTo(S, n - 1)
         IN shorter \cup {Append(s, x) : s \in {t \in shorter : Len(t) = n - 1}, x \in S}

RegistryTexts == SeqsUpTo(RegistryEntries, MaxEntries)

\* The record extract_tool_registry builds for one entry.
extract_tool_entry(e) ==
    [enabled |-> IF e.enabled = Absent THEN PyNone
                 ELSE IF Lower(e.enabled) = "true" THEN PyTrue ELSE PyFalse,
     implementation_status |-> IF e.implementation_status = Absent THEN PyNone
                               ELSE e.implementation_status]

\* extract_tool_registry: a later entry of the same name replaces an earlier one.
RECURSIVE extract_tool_registry(_)
extract_tool_registry(txt) ==
    IF txt = <<>> THEN <<>>
    ELSE LET before == extract_tool_registry(SubSeq(txt, 1, Len(txt) - 1))
             e == txt[Len(txt)]
         IN [t \in DOMAIN before \cup {e.tool_name} |->
                IF t = e.tool_name THEN extract_tool_entry(e) ELSE before[t]]

\* The seconds the wall clock shows, in order, as
\* datetime.now(timezone.utc).replace(microsecond=0).isoformat() with "+00:00"
\* replaced by "Z" prints them.
WallClock == <<"2026-11-04T09:00:00Z", "2026-11-04T09:00:01Z">>

\* Texts given as --now_utc (PyNone: the option is not given): with and
\* without the final Z.
NowUtcArgs == {PyNone, "2026-02-23T18:00:00Z", "2026-02-23T18:00:00"}

\* now_utc_from_arg, lines 44-50: the argument, with a Z put after it if it
\* does not end in one; without the argument, the wall clock.
now_utc_from_arg(arg, clock) ==
    IF arg # PyNone /\ arg # ""
    THEN IF SubSeq(arg, Len(arg), Len(arg)) = "Z" THEN arg ELSE arg \o "Z"
    ELSE WallClock[clock]

\* The locals of lines 257-269 for a command line and the second at which line
\* 269 runs.
HarnessLocals(arg, clock, prev) ==
    [args |-> [now_utc |-> arg], clock |-> clock,
     now_utc |-> now_utc_from_arg(arg, clock), prev |-> prev]

\* No invocation before this one.
NoRun == [done |-> FALSE]

\* Line 269.
now_utc == h.now_utc

build_run_record(req) ==
    [status |-> "running",
     lane_id |-> req.lane_id,
     role_id |-> req.agent_role,
     created_at_utc |-> now_utc,
     completed_at_utc |-> PyNone,
     error_code |-> PyNone,
     error_message_bounded |-> PyNone]

audit_event(seq, action_type, outcome, outcome_reason, tool_name, request_obj, response_obj, error_code, retryable) ==
    [event_id |-> seq,
     timestamp_utc |-> now_utc,
     action_type |-> action_type,
     outcome |-> outcome,
     outcome_reason_bounded |-> outcome_reason,
     lane_id |-> request.lane_id,
     role_id |-> request.agent_role,
     request_hash_sha256 |-> sha256_hex(request_obj),
     response_hash_sha256 |-> sha256_hex(response_obj),
     error_code |-> error_code,
     retryable |-> retryable,
     metadata_json |-> IF tool_name # PyNone THEN [tool_name |-> tool_name] ELSE <<>>]

\* Mutant of LaneCheck: the lane test is made before the role test.
LaneCheck_LaneFirst(role_id, lane_id) ==
    IF lane_id \notin DOMAIN lanes_allowed
    THEN [ok |-> FALSE, reason |-> "lane_not_defined"]
    ELSE IF role_id \notin roles
    THEN [ok |-> FALSE, reason |-> "role_not_defined"]
    ELSE IF role_id \notin Get(lanes_allowed, lane_id, {})
    THEN [ok |-> FALSE, reason |-> "role_not_allowed_for_lane"]
    ELSE [ok |-> TRUE, reason |-> PyNone]

\* Step 2: the role / lane / role-in-lane chain.
LaneCheck(role_id, lane_id) ==
    IF role_id \notin roles
    THEN [ok |-> FALSE, reason |-> "role_not_defined"]
    ELSE IF lane_id \notin DOMAIN lanes_allowed
    THEN [ok |-> FALSE, reason |-> "lane_not_defined"]
    ELSE IF role_id \notin Get(lanes_allowed, lane_id, {})
    THEN [ok |-> FALSE, reason |-> "role_not_allowed_for_lane"]
    ELSE [ok |-> TRUE, reason |-> PyNone]

\* Mutant of ToolCheckIn: the implementation status is tested before `enabled`.
ToolCheckIn_ImplFirst(registry, lane_is_ok, tool_name, lane_id) ==
    IF ~lane_is_ok
    THEN [allowed |-> FALSE, reason |-> "lane_not_authorized"]
    ELSE IF tool_name \notin DOMAIN registry
    THEN [allowed |-> FALSE, reason |-> "tool_not_registered"]
    ELSE IF tool_name \notin Get(lane_tools, lane_id, {})
    THEN [allowed |-> FALSE, reason |-> "tool_not_allowed_in_lane"]
    ELSE IF registry[tool_name].implementation_status # "implemented"
    THEN [allowed |-> FALSE, reason |-> "tool_not_implemented"]
    ELSE IF registry[tool_name].enabled = PyFalse
    THEN [allowed |-> FALSE, reason |-> "tool_disabled"]
    ELSE [allowed |-> TRUE, reason |-> PyNone]

\* Step 4: the policy + registry chain, on a given registry.
ToolCheckIn(registry, lane_is_ok, tool_name, lane_id) ==
    IF ~lane_is_ok
    THEN [allowed |-> FALSE, reason |-> "lane_not_authorized"]
    ELSE IF tool_name \notin DOMAIN registry
    THEN [allowed |-> FALSE, reason |-> "tool_not_registered"]
    ELSE IF tool_name \notin Get(lane_tools, lane_id, {})
    THEN [allowed |-> FALSE, reason |-> "tool_not_allowed_in_lane"]
    ELSE IF registry[tool_name].enabled = PyFalse
    THEN [allowed |-> FALSE, reason |-> "tool_disabled"]
    ELSE IF registry[tool_name].implementation_status # "implemented"
    THEN [allowed |-> FALSE, reason |-> "tool_not_implemented"]
    ELSE [allowed |-> TRUE, reason |-> PyNone]

ToolCheck(lane_is_ok, tool_name, lane_id) ==
    ToolCheckIn(tool_registry, lane_is_ok, tool_name, lane_id)

denial_response(reason) ==
    [status |-> "denied",
     error_code |-> "TOOL_DENIED",
     diagnostic |->
        [category |-> "policy",
         message |-> "Tool execution denied by Tool Gateway policy.",
         likely_cause |-> reason,
         suggested_fix |-> "Enable and implement tool OR adjust lane permissions under attorney-approved contract change.",
         retryable |-> FALSE,
         severity |-> "high"]]

\* The state at line 292: tables read, run record built, no event yet.
HarnessInit ==
    /\ request \in [agent_role : RoleIds \cup {PyNone},
                    lane_id : LaneIds \cup {PyNone},
                    tool_name : ToolIds \cup {PyNone}]
    /\ roles \in SUBSET RoleIds
    /\ \E known \in SUBSET LaneIds :
          /\ lanes_allowed \in [known -> SUBSET RoleIds]
          /\ lane_tools \in [known -> SUBSET ToolIds]
    /\ \E txt \in RegistryTexts : tool_registry = extract_tool_registry(txt)
    /\ pc = "run_created"
    /\ h = HarnessLocals("2026-02-23T18:00:00Z", 1, NoRun)
    /\ run_record = build_run_record(request)
    /\ events = <<>>
    /\ lane_ok = FALSE
    /\ lane_reason = PyNone
    /\ allowed = FALSE
    /\ deny_reason = PyNone
    /\ out_files = <<>>

\* What no step of the harness changes: the request, the capability tables,
\* and everything of Part II.
tables == <<request, roles, lanes_allowed, lane_tools, tool_registry, h, gvars, ovars>>

\* 1) run_created
RunCreated ==
    /\ pc = "run_created"
    /\ events' = Append(events,
          audit_event(1, "run_created", "success", PyNone, PyNone,
                      [run_record |-> run_record], [created |-> TRUE],
                      PyNone, PyNone))
    /\ pc' = "lane_authorized"
    /\ UNCHANGED <<tables, run_record, lane_ok, lane_reason, allowed, deny_reason, out_files>>

\* 2) lane_authorized
LaneAuthorized ==
    /\ pc = "lane_authorized"
    /\ LET r == LaneCheck(request.agent_role, request.lane_id)
       IN /\ lane_ok' = r.ok
          /\ lane_reason' = r.reason
          /\ events' = Append(events,
                audit_event(2, "lane_authorized",
                            IF r.ok THEN "success" ELSE "denied", r.reason, PyNone,
                            [role_id |-> request.agent_role, lane_id |-> request.lane_id],
                            [authorized |-> r.ok, reason |-> r.reason],
                            PyNone, PyNone))
    /\ pc' = "tool_requested"
    /\ UNCHANGED <<tables, run_record, allowed, deny_reason, out_files>>

\* Mutant of ToolRequested: the receipt is recorded as denied when the lane was.
ToolRequested_FollowsLane ==
    /\ pc = "tool_requested"
    /\ events' = Append(events,
          audit_event(3, "tool_requested", IF lane_ok THEN "success" ELSE "denied",
                      PyNone, request.tool_name,
                      request, [received |-> TRUE], PyNone, PyNone))
    /\ pc' = "tool_allowed"
    /\ UNCHANGED <<tables, run_record, lane_ok, lane_reason, allowed, deny_reason, out_files>>

\* 3) tool_requested (always recorded)
ToolRequested ==
    /\ pc = "tool_requested"
    /\ events' = Append(events,
          audit_event(3, "tool_requested", "success", PyNone, request.tool_name,
                      request, [received |-> TRUE], PyNone, PyNone))
    /\ pc' = "tool_allowed"
    /\ UNCHANGED <<tables, run_record, lane_ok, lane_reason, allowed, deny_reason, out_files>>

\* 4) tool_allowed
ToolAllowed ==
    /\ pc = "tool_allowed"
    /\ LET r == ToolCheck(lane_ok, request.tool_name, request.lane_id)
       IN /\ allowed' = r.allowed
          /\ deny_reason' = r.reason
          /\ events' = Append(events,
                audit_event(4, "tool_allowed",
                            IF r.allowed THEN "success" ELSE "denied", r.reason,
                            request.tool_name,
                            [tool_name |-> request.tool_name, lane_id |-> request.lane_id],
                            [allowed |-> r.allowed, reason |-> r.reason],
                            PyNone, PyNone))
    /\ pc' = "terminal"
    /\ UNCHANGED <<tables, run_record, lane_ok, lane_reason, out_files>>

\* 5a) not allowed: the tool_denied event is appended (lines 403-435) ...
ToolDenied ==
    /\ pc = "terminal"
    /\ ~allowed
    /\ events' = Append(events,
          audit_event(5, "tool_denied", "denied", deny_reason, request.tool_name,
                      request, denial_response(deny_reason), "TOOL_DENIED", FALSE))
    /\ pc' = "mark_completed"
    /\ UNCHANGED <<tables, run_record, lane_ok, lane_reason, allowed, deny_reason, out_files>>

\* Mutant of MarkCompleted: a denial is recorded as a failed run.
MarkCompleted_Failed ==
    /\ pc = "mark_completed"
    /\ run_record' = [run_record EXCEPT !.status = "failed",
                                        !.completed_at_utc = now_utc]
    /\ pc' = "run_completed"
    /\ UNCHANGED <<tables, events, lane_ok, lane_reason, allowed, deny_reason, out_files>>

\* Mutant of MarkCompleted: event 1 holds the run record itself, not its
\* digest, so completing the record rewrites the emitted event.
MarkCompleted_Aliased ==
    /\ pc = "mark_completed"
    /\ run_record' = [run_record EXCEPT !.status = "completed",
                                        !.completed_at_utc = now_utc]
    /\ events' = [events EXCEPT ![1].request_hash_sha256 =
                                    sha256_hex([run_record |-> run_record'])]
    /\ pc' = "run_completed"
    /\ UNCHANGED <<tables, lane_ok, lane_reason, allowed, deny_reason, out_files>>

\* ... and then the run record is completed (lines 437-438).
MarkCompleted ==
    /\ pc = "mark_completed"
    /\ run_record' = [run_record EXCEPT !.status = "completed",
                                        !.completed_at_utc = now_utc]
    /\ pc' = "run_completed"
    /\ UNCHANGED <<tables, events, lane_ok, lane_reason, allowed, deny_reason, out_files>>

\* Mutant of MarkFailed: the failed run record is left without its error code.
MarkFailed_NoCode ==
    /\ pc = "terminal"
    /\ allowed
    /\ run_record' = [run_record EXCEPT !.status = "failed",
                                        !.completed_at_utc = now_utc]
    /\ pc' = "tool_executed"
    /\ UNCHANGED <<tables, events, lane_ok, lane_reason, allowed, deny_reason, out_files>>

\* 5b) allowed: the run record fails first (lines 441-444) ...
MarkFailed ==
    /\ pc = "terminal"
    /\ allowed
    /\ run_record' = [run_record EXCEPT !.status = "failed",
                                        !.completed_at_utc = now_utc,
                                        !.error_code = "TOOL_NOT_IMPLEMENTED",
                                        !.error_message_bounded = "Harness does not execute tools."]
    /\ pc' = "tool_executed"
    /\ UNCHANGED <<tables, events, lane_ok, lane_reason, allowed, deny_reason, out_files>>

\* ... and then the tool_executed event is appended (lines 446-465).
ToolExecuted ==
    /\ pc = "tool_executed"
    /\ events' = Append(events,
          audit_event(5, "tool_executed", "failed", "harness_no_execution",
                      request.tool_name, request,
                      [status |-> "failed", error_code |-> "TOOL_NOT_IMPLEMENTED"],
                      "TOOL_NOT_IMPLEMENTED", FALSE))
    /\ pc' = "run_completed"
    /\ UNCHANGED <<tables, run_record, lane_ok, lane_reason, allowed, deny_reason, out_files>>

\* Mutant of RunCompleted: the closing event always reports success.
RunCompleted_AlwaysSuccess ==
    /\ pc = "run_completed"
    /\ events' = Append(events,
          audit_event(6, "run_completed", "success", "completed", PyNone,
                      [final_status |-> run_record.status],
                      [completed |-> TRUE, status |-> run_record.status],
                      PyNone, PyNone))
    /\ pc' = "write"
    /\ UNCHANGED <<tables, run_record, lane_ok, lane_reason, allowed, deny_reason, out_files>>

\* 6) run_completed
RunCompleted ==
    /\ pc = "run_completed"
    /\ LET ok == run_record.status = "completed"
       IN events' = Append(events,
             audit_event(6, "run_completed",
                         IF ok THEN "success" ELSE "failed",
                         IF ok THEN "completed" ELSE "failed", PyNone,
                         [final_status |-> run_record.status],
                         [completed |-> TRUE, status |-> run_record.status],
                         PyNone, PyNone))
    /\ pc' = "write"
    /\ UNCHANGED <<tables, run_record, lane_ok, lane_reason, allowed, deny_reason, out_files>>

\* Mutant of WriteOutputs: persisting the ledger is itself recorded as an event.
WriteOutputs_Emits ==
    /\ pc = "write"
    /\ events' = Append(events,
          audit_event(7, "outputs_written", "success", PyNone, PyNone,
                      [final_status |-> run_record.status], [written |-> TRUE],
                      PyNone, PyNone))
    /\ out_files' = [f \in {"run_record.json", "audit_ledger.json"} |->
                        IF f = "run_record.json" THEN <<run_record>> ELSE events']
    /\ pc' = "done"
    /\ UNCHANGED <<tables, run_record, lane_ok, lane_reason, allowed, deny_reason>>

\* run_record.json and audit_ledger.json are written; main returns 0.
WriteOutputs ==
    /\ pc = "write"
    /\ out_files' = [f \in {"run_record.json", "audit_ledger.json"} |->
                        IF f = "run_record.json" THEN <<run_record>> ELSE events]
    /\ pc' = "done"
    /\ UNCHANGED <<tables, run_record, events, lane_ok, lane_reason, allowed, deny_reason>>

HarnessNext ==
    \/ RunCreated
    \/ LaneAuthorized
    \/ ToolRequested
    \/ ToolAllowed
    \/ ToolDenied
    \/ MarkCompleted
    \/ MarkFailed
    \/ ToolExecuted
    \/ RunCompleted
    \/ WriteOutputs

(* ---------------------------------------------------------------------- *)
(* Part II: lib/canonical.py, run_golden.py, pin_golden_hashes.py          *)
(* ---------------------------------------------------------------------- *)

\* Commands (run or pin) invoked in one behaviour.
MaxInvocations == 2

RUNNER_VERSION == "v1.0.0"
DEFAULT_SEED == "1337"
PIN_RUNNER_VERSION == "v1.0.0"
PIN_DEFAULT_SEED == "1337"

ContractPath == "contract_manifest.yaml"
FixturesManifestPath == "fixtures_manifest.json"
ExpectedManifestPath == "expected/golden_expected_manifest.json"

\* The fixture files main() loads, by their path under fixtures/.
FixtureNames == {"interview_payload.json", "case_meta.json", "capability_gateway_mock.json"}

CoreArtifacts ==
    <<"export_bundle.json", "case_snapshot.json", "tool_calls.jsonl", "audit_ledger.jsonl">>

ArtifactNames ==
    {"export_bundle.json", "case_snapshot.json", "tool_calls.jsonl",
     "audit_ledger.jsonl", "hashes.json", "workflow_report.json"}

\* Every path an output directory may hold, in the order sorted() gives them.
OutPaths ==
    <<"audit_ledger.jsonl", "case_snapshot.json", "export_bundle.json", "hashes.json",
      "stale.txt", "sub", "sub/old.json", "tool_calls.jsonl", "workflow_report.json">>

\* Every string the model sorts (relative paths, keys of documents), in the
\* order Python compares strings.
StringOrder ==
    <<"a", "a.json", "acceptance/build_integrity_checklist", "acceptance/none.ps1",
      "acceptance/validate_contract.ps1", "audit_ledger.jsonl", "b", "b.json", "c", "c.json",
      "case_snapshot.json", "contract_manifest.yaml", "d", "d/e.json", "export_bundle.json",
      "ghost.json", "harness/replay_vectors/a.expected.json",
      "harness/replay_vectors/b.expected.json", "hashes.json", "lanes.yaml",
      "roles/roles.yaml", "schemas/ddl.sql", "schemas/none.sql", "stale.txt", "sub",
      "sub/old.json", "tool_calls.jsonl", "tools/tool_registry.yaml", "workflow_report.json">>

Range(seq) == {seq[i] : i \in 1..Len(seq)}

\* sorted(strings)
sorted(strings) == SelectSeq(StringOrder, LAMBDA q : q \in strings)

\* The entries directly under a directory of an output tree.
ChildrenOf(dir) == IF dir = "sub" THEN {"sub/old.json"} ELSE {}

\* hashlib.sha256(data).hexdigest(): a lowercase hex string, collision free.
sha256_bytes(data) == [hex |-> data, upper |-> FALSE]

\* str.lower() of a hex digest.
LowerHex(d) == [d EXCEPT !.upper = FALSE]

\* The same digest typed in capitals (a spelling only a hand-written file has).
UpperHex(d) == [d EXCEPT !.upper = TRUE]

\* json.dumps(obj, sort_keys=True, indent=2, ...) + "\n", as bytes.
canonical_json_bytes(obj) == [enc |-> "json", doc |-> obj]

\* One compact line per element, joined by "\n", one "\n" at the end.
canonical_jsonl_bytes(objs) == [enc |-> "jsonl", lines |-> objs]

\* Bytes that are no document of this program (a text file, left-over data).
RawBytes(text) == [enc |-> "raw", text |-> text]

\* json.loads of the bytes of a JSON document.
load_json_bytes(bytes) == bytes.doc

\* A JSON object read as a manifest, and anything else.
JsonDict(m) == [t |-> "dict", v |-> m]
JsonList == [t |-> "list"]
JsonNumber == [t |-> "number"]

IsStr(v) == "hex" \in DOMAIN v

sha256_file(path) == sha256_bytes(fs[path])

\* Mutant of compute_run_id: the seed is left out of the hashed payload.
compute_run_id_NoSeed(contract_manifest_sha, fixtures_manifest_sha, seed) ==
    sha256_bytes(<<contract_manifest_sha, fixtures_manifest_sha, RUNNER_VERSION>>)

\* run_golden.compute_run_id: SHA-256 of the four parts joined by "\n".
compute_run_id(contract_manifest_sha, fixtures_manifest_sha, seed) ==
    sha256_bytes(<<contract_manifest_sha, fixtures_manifest_sha, RUNNER_VERSION, seed>>)

\* Mutant of pin_compute_run_id: pin's copy of the runner version has moved on.
pin_compute_run_id_OtherVersion(contract_sha, fixtures_sha, seed) ==
    sha256_bytes(<<contract_sha, fixtures_sha, "v1.0.1", seed>>)

\* pin_golden_hashes.compute_run_id
pin_compute_run_id(contract_sha, fixtures_sha, seed) ==
    sha256_bytes(<<contract_sha, fixtures_sha, PIN_RUNNER_VERSION, seed>>)

\* Mutant of read_manifest_json: a document that is no object reads as an
\* empty manifest.
read_manifest_json_NoTypeCheck(path) ==
    IF fs[path].enc # "json"
    THEN [ok |-> FALSE, error |-> "JSONDecodeError"]
    ELSE LET raw == load_json_bytes(fs[path])
         IN IF raw.t # "dict"
            THEN [ok |-> TRUE, map |-> <<>>]
            ELSE IF \E k \in DOMAIN raw.v : ~IsStr(raw.v[k])
            THEN [ok |-> FALSE, error |-> "Manifest entries must be string:string"]
            ELSE [ok |-> TRUE, map |-> [k \in DOMAIN raw.v |-> LowerHex(raw.v[k])]]

\* Mutant of read_manifest_json: the digests are returned as the file spells them.
read_manifest_json_KeepCase(path) ==
    IF fs[path].enc # "json"
    THEN [ok |-> FALSE, error |-> "JSONDecodeError"]
    ELSE LET raw == load_json_bytes(fs[path])
         IN IF raw.t # "dict"
            THEN [ok |-> FALSE, error |-> "Manifest must be a JSON object"]
            ELSE IF \E k \in DOMAIN raw.v : ~IsStr(raw.v[k])
            THEN [ok |-> FALSE, error |-> "Manifest entries must be string:string"]
            ELSE [ok |-> TRUE, map |-> raw.v]

\* read_manifest_json: the manifest, or the error raised (json.loads raises
\* JSONDecodeError, a ValueError, on bytes that are no JSON document).
read_manifest_json(path) ==
    IF fs[path].enc # "json"
    THEN [ok |-> FALSE, error |-> "JSONDecodeError"]
    ELSE LET raw == load_json_bytes(fs[path])
         IN IF raw.t # "dict"
            THEN [ok |-> FALSE, error |-> "Manifest must be a JSON object"]
            ELSE IF \E k \in DOMAIN raw.v : ~IsStr(raw.v[k])
            THEN [ok |-> FALSE, error |-> "Manifest entries must be string:string"]
            ELSE [ok |-> TRUE, map |-> [k \in DOMAIN raw.v |-> LowerHex(raw.v[k])]]

\* write_manifest_json: keys sorted, then the canonical encoding.
manifest_json_bytes(mapping) == canonical_json_bytes(JsonDict(mapping))

\* clean_dir's loop over sorted(rglob("*"), reverse=True), from OutPaths[i] down:
\* a regular file is unlinked, anything else is rmdir'ed if that succeeds.
RECURSIVE clean_entries(_, _)
clean_entries(tree, i) ==
    IF i = 0 THEN tree
    ELSE LET q == OutPaths[i]
             without == [r \in DOMAIN tree \ {q} |-> tree[r]]
         IN IF q \notin DOMAIN tree THEN clean_entries(tree, i - 1)
            ELSE IF tree[q].kind = "file" THEN clean_entries(without, i - 1)
            ELSE IF ChildrenOf(q) \cap DOMAIN tree = {} THEN clean_entries(without, i - 1)
            ELSE clean_entries(tree, i - 1)

\* Mutant of clean_dir: files are unlinked, directories are left standing.
clean_dir_FilesOnly(tree) == [q \in {r \in DOMAIN tree : tree[r].kind # "file"} |-> tree[q]]

\* clean_dir(out_dir) followed by out_dir.mkdir(parents=True, exist_ok=True):
\* the directory exists afterwards, holding what clean_dir could not remove.
clean_dir(tree) == clean_entries(tree, Len(OutPaths))

File(data) == [kind |-> "file", data |-> data]

\* write_bytes(out_dir / name, data)
WriteFile(tree, name, data) ==
    [r \in DOMAIN tree \cup {name} |-> IF r = name THEN File(data) ELSE tree[r]]

RegularFiles(tree) == {q \in DOMAIN tree : tree[q].kind = "file"}

\* dict.get(key) of a loaded fixture document.
DocGet(doc, key, default) == IF key \in DOMAIN doc THEN doc[key] ELSE default

\* Mutant of audit_lines: the first line is stamped with the invocation's clock.
audit_lines_Clock(run_id, seed, contract_sha, fixtures_sha, tool_calls) ==
    <<[ts |-> inv, event |-> "GOLDEN_RUN_START",
       run_id |-> run_id, seed |-> seed, runner_version |-> RUNNER_VERSION],
      [ts |-> "1970-01-01T00:00:01Z", event |-> "FIXTURES_LOADED",
       fixtures_manifest_sha256 |-> fixtures_sha, contract_manifest_sha256 |-> contract_sha],
      [ts |-> "1970-01-01T00:00:02Z", event |-> "TOOL_CALLS_MOCKED", count |-> Len(tool_calls)],
      [ts |-> "1970-01-01T00:00:03Z", event |-> "EXPORT_BUNDLE_WRITTEN"]>>

\* The audit ledger lines (run_golden.py lines 86-109).
audit_lines(run_id, seed, contract_sha, fixtures_sha, tool_calls) ==
    <<[ts |-> "1970-01-01T00:00:00Z", event |-> "GOLDEN_RUN_START",
       run_id |-> run_id, seed |-> seed, runner_version |-> RUNNER_VERSION],
      [ts |-> "1970-01-01T00:00:01Z", event |-> "FIXTURES_LOADED",
       fixtures_manifest_sha256 |-> fixtures_sha, contract_manifest_sha256 |-> contract_sha],
      [ts |-> "1970-01-01T00:00:02Z", event |-> "TOOL_CALLS_MOCKED", count |-> Len(tool_calls)],
      [ts |-> "1970-01-01T00:00:03Z", event |-> "EXPORT_BUNDLE_WRITTEN"]>>

export_bundle(run_id, case_meta, interview, tool_calls) ==
    [bundle_version |-> "v1",
     run_id |-> run_id,
     case |-> [case_id |-> DocGet(case_meta, "case_id", PyNone),
               caption |-> DocGet(case_meta, "caption", PyNone),
               jurisdiction |-> DocGet(case_meta, "jurisdiction", PyNone)],
     intake |-> [interview_payload_id |-> DocGet(interview, "interview_payload_id", PyNone),
                 received_at |-> DocGet(interview, "received_at", PyNone)],
     mediated_tool_calls |-> tool_calls,
     invariants |-> <<"case_isolation_required", "no_direct_db_writes",
                      "supersession_only", "audit_ledger_required">>]

case_snapshot(case_meta, interview) ==
    [case_id |-> DocGet(case_meta, "case_id", PyNone),
     parties |-> DocGet(case_meta, "parties", <<>>),
     facts_summary |-> DocGet(interview, "facts_summary", PyNone),
     documents |-> <<>>]

workflow_report(run_id, seed, contract_sha, fixtures_sha, hashes) ==
    [run_id |-> run_id,
     runner_version |-> RUNNER_VERSION,
     seed |-> seed,
     contract_manifest_sha256 |-> contract_sha,
     fixtures_manifest_sha256 |-> fixtures_sha,
     outputs |-> hashes]

\* os.environ.get("GOLDEN_SEED", DEFAULT_SEED)
SeedOf(default) == IF env_seed = Absent THEN default ELSE env_seed

\* An environment variable: unset, or set to a text (its characters).
EnvUnset == [set |-> FALSE]
EnvText(chars) == [set |-> TRUE, chars |-> chars]

\* os.environ.get(name, "")
environ_get(env) == IF env.set THEN env.chars ELSE <<>>

\* Characters str.strip() removes.
Whitespace == {" ", "\t", "\n"}

\* str.strip(): whitespace is dropped from both ends, not from the middle.
RECURSIVE str_strip(_)
str_strip(chars) ==
    IF chars = <<>> THEN <<>>
    ELSE IF Head(chars) \in Whitespace THEN str_strip(Tail(chars))
    ELSE IF chars[Len(chars)] \in Whitespace THEN str_strip(SubSeq(chars, 1, Len(chars) - 1))
    ELSE chars

\* str.lower(), on the letters the model uses.
lower_char(c) ==
    CASE c = "E" -> "e" [] c = "R" -> "r" [] c = "S" -> "s" [] c = "T" -> "t"
      [] c = "U" -> "u" [] c = "Y" -> "y" [] OTHER -> c
str_lower(chars) == [i \in 1..Len(chars) |-> lower_char(chars[i])]

\* What GOLDEN_SKIP_COMPARE is compared with.
SkipWords == {<<"1">>, <<"t", "r", "u", "e">>, <<"y", "e", "s">>}

\* Mutant of SkipCompare: the text is compared as it is.
SkipCompare_Exact(env) == environ_get(env) \in SkipWords

\* GOLDEN_SKIP_COMPARE read as a flag (line 165).
SkipCompare(env) == str_lower(str_strip(environ_get(env))) \in SkipWords

\* GOLDEN_SKIP_COMPARE as `python run_golden.py` may find it (the pin
\* command sets it to "1").
SkipEnvChoices ==
    {EnvUnset, EnvText(<<" ", "Y", "e", "s", "\n">>), EnvText(<<"T", "R", "U", "E">>),
     EnvText(<<"0">>), EnvText(<<"y", " ", "e", "s">>)}

\* A local holding a digest, before it is assigned.
Unbound == [unbound |-> TRUE]

\* The locals of run_golden.main() before its first statement.
GoldenLocals(skip_env) ==
    [pc |-> "hash", skip_env |-> skip_env, seed |-> PyNone,
     contract_sha |-> Unbound, fixtures_sha |-> Unbound, run_id |-> Unbound,
     docs |-> <<>>, hashes |-> <<>>, error |-> PyNone, notice |-> FALSE,
     at |-> PyNone, detail |-> <<>>, stale |-> {}, checks |-> {}]

GoldenOff == [GoldenLocals(EnvUnset) EXCEPT !.pc = "off"]

\* The locals of pin_golden_hashes.main() before its first statement.  `first`
\* and `replaced` are history, read by no action: what the first pin that
\* finished was given and what it left in the two manifests; whether step 1 of
\* this pin put other bytes into the fixtures manifest than it found.
PinLocals ==
    [pc |-> "pin_fixtures", seed |-> PyNone, run_id |-> Unbound, error |-> PyNone, at |-> PyNone,
     first |-> [done |-> FALSE], replaced |-> FALSE]

PinOff == [PinLocals EXCEPT !.pc = "off"]

\* No function of lib/canonical.py is being called on its own.
LibOff == [pc |-> "off"]

\* run_replay.py and migrate_gate8_to_python.py are not running.
ReplayOff == [pc |-> "off"]
MigrateOff == [pc |-> "off"]

\* An exception leaves main(): `at` keeps the step that raised it.
Abort(locals, error) == [locals EXCEPT !.pc = "aborted", !.error = error, !.at = locals.pc]

\* An exception whose message names paths or digests (`detail`).
AbortWith(locals, error, detail) == [Abort(locals, error) EXCEPT !.detail = detail]

\* The inputs the run id and the artifacts are derived from.
RunInputs == <<[q \in DOMAIN fs \ {ExpectedManifestPath} |-> fs[q]], env_seed>>

\* The six artifacts as they are in the run's output directory.
ArtifactsOf(tree) == [q \in ArtifactNames \cap RegularFiles(tree) |-> tree[q].data]

\* `python run_golden.py`, with GOLDEN_SKIP_COMPARE set or not.
InvokeRun ==
    /\ mode = "idle"
    /\ inv < MaxInvocations
    /\ \E skip_env \in SkipEnvChoices : g' = GoldenLocals(skip_env)
    /\ mode' = "run"
    /\ inv' = inv + 1
    /\ UNCHANGED <<hvars, ovars, lib, fs, out, env_seed, p, first_run>>

\* Lines 51-62: the seed, the two input hashes, the run id.
G_HashInputs ==
    /\ g.pc = "hash"
    /\ g' = IF {ContractPath, FixturesManifestPath} \subseteq DOMAIN fs
            THEN LET seed == SeedOf(DEFAULT_SEED)
                     contract_sha == sha256_file(ContractPath)
                     fixtures_sha == sha256_file(FixturesManifestPath)
                 IN [g EXCEPT !.seed = seed,
                              !.contract_sha = contract_sha,
                              !.fixtures_sha = fixtures_sha,
                              !.run_id = compute_run_id(contract_sha, fixtures_sha, seed),
                              !.pc = "clean"]
            ELSE Abort(g, "FileNotFoundError")
    /\ UNCHANGED <<hvars, ovars, lib, fs, out, env_seed, mode, inv, p, first_run>>

\* Lines 64-67: the output directory is cleaned if it exists, then made.
\* (g.stale keeps what the directory held before, for the record.)
G_CleanOutDir ==
    /\ g.pc = "clean"
    /\ out' = [r \in DOMAIN out \cup {g.run_id} |->
                 IF r = g.run_id
                 THEN (IF r \in DOMAIN out THEN clean_dir(out[r]) ELSE <<>>)
                 ELSE out[r]]
    /\ g' = [g EXCEPT !.pc = "validate",
                      !.stale = IF g.run_id \in DOMAIN out THEN DOMAIN out[g.run_id] ELSE {}]
    /\ UNCHANGED <<hvars, ovars, lib, fs, env_seed, mode, inv, p, first_run>>

\* Mutant of G_ValidateFixtures: the presence of the named fixtures is not tested.
G_ValidateFixtures_NoCheck ==
    /\ g.pc = "validate"
    /\ LET fixture_map == read_manifest_json(FixturesManifestPath)
       IN g' = IF ~fixture_map.ok
               THEN AbortWith(g, "ManifestParseError",
                              [path |-> FixturesManifestPath, message |-> fixture_map.error])
               ELSE [g EXCEPT !.pc = "load"]
    /\ UNCHANGED <<hvars, ovars, lib, fs, out, env_seed, mode, inv, p, first_run>>

\* Lines 71-76: the fixtures manifest is read and every fixture it names must exist.
G_ValidateFixtures ==
    /\ g.pc = "validate"
    /\ LET fixture_map == read_manifest_json(FixturesManifestPath)
       IN g' = IF ~fixture_map.ok
               THEN AbortWith(g, "ManifestParseError",
                              [path |-> FixturesManifestPath, message |-> fixture_map.error])
               ELSE IF \E rel \in DOMAIN fixture_map.map : rel \notin DOMAIN fs
               THEN Abort(g, "MissingFixture")
               ELSE [g EXCEPT !.pc = "load"]
    /\ UNCHANGED <<hvars, ovars, lib, fs, out, env_seed, mode, inv, p, first_run>>

\* Lines 78-83: the three fixture documents are loaded.
G_LoadFixtures ==
    /\ g.pc = "load"
    /\ g' = IF ~(FixtureNames \subseteq DOMAIN fs) THEN Abort(g, "FileNotFoundError")
            ELSE IF \E n \in FixtureNames : fs[n].enc # "json" THEN Abort(g, "JSONDecodeError")
            ELSE [g EXCEPT !.docs = [n \in FixtureNames |-> load_json_bytes(fs[n])],
                           !.pc = "write"]
    /\ UNCHANGED <<hvars, ovars, lib, fs, out, env_seed, mode, inv, p, first_run>>

\* Lines 83-145: the four core artifacts are built and written.
G_WriteArtifacts ==
    /\ g.pc = "write"
    /\ LET interview == g.docs["interview_payload.json"]
           case_meta == g.docs["case_meta.json"]
           tool_calls == DocGet(g.docs["capability_gateway_mock.json"], "tool_calls", <<>>)
           t1 == WriteFile(out[g.run_id], "export_bundle.json",
                    canonical_json_bytes(export_bundle(g.run_id, case_meta, interview, tool_calls)))
           t2 == WriteFile(t1, "case_snapshot.json",
                    canonical_json_bytes(case_snapshot(case_meta, interview)))
           t3 == WriteFile(t2, "tool_calls.jsonl", canonical_jsonl_bytes(tool_calls))
           t4 == WriteFile(t3, "audit_ledger.jsonl",
                    canonical_jsonl_bytes(audit_lines(g.run_id, g.seed, g.contract_sha,
                                                      g.fixtures_sha, tool_calls)))
       IN out' = [out EXCEPT ![g.run_id] = t4]
    /\ g' = [g EXCEPT !.pc = "hashes"]
    /\ UNCHANGED <<hvars, ovars, lib, fs, env_seed, mode, inv, p, first_run>>

\* Lines 147-151: the core artifacts are hashed and hashes.json is written.
G_WriteHashes ==
    /\ g.pc = "hashes"
    /\ LET hashes == [n \in {CoreArtifacts[i] : i \in 1..Len(CoreArtifacts)} |->
                         sha256_bytes(out[g.run_id][n].data)]
       IN /\ out' = [out EXCEPT ![g.run_id] =
                        WriteFile(@, "hashes.json", canonical_json_bytes([files |-> hashes]))]
          /\ g' = [g EXCEPT !.hashes = hashes, !.pc = "report"]
    /\ UNCHANGED <<hvars, ovars, lib, fs, env_seed, mode, inv, p, first_run>>

\* Mutant of G_WriteReport: writing the report is logged in audit_ledger.jsonl,
\* after the ledger was hashed.
G_WriteReport_Logged ==
    /\ g.pc = "report"
    /\ out' = [out EXCEPT ![g.run_id] =
                  WriteFile(WriteFile(@, "workflow_report.json",
                                canonical_json_bytes(workflow_report(g.run_id, g.seed, g.contract_sha,
                                                                     g.fixtures_sha, g.hashes))),
                            "audit_ledger.jsonl",
                            canonical_jsonl_bytes(Append(@["audit_ledger.jsonl"].data.lines,
                                                         [event |-> "REPORT_WRITTEN"])))]
    /\ g' = [g EXCEPT !.pc = "compare"]
    /\ first_run' = IF first_run.done THEN first_run
                    ELSE [done |-> TRUE, inv |-> inv, inputs |-> RunInputs, run_id |-> g.run_id,
                          artifacts |-> ArtifactsOf(out'[g.run_id])]
    /\ UNCHANGED <<hvars, ovars, lib, fs, env_seed, mode, inv, p>>

\* Lines 153-162: workflow_report.json is written.
G_WriteReport ==
    /\ g.pc = "report"
    /\ out' = [out EXCEPT ![g.run_id] =
                  WriteFile(@, "workflow_report.json",
                      canonical_json_bytes(workflow_report(g.run_id, g.seed, g.contract_sha,
                                                           g.fixtures_sha, g.hashes)))]
    /\ g' = [g EXCEPT !.pc = "compare"]
    /\ first_run' = IF first_run.done THEN first_run
                    ELSE [done |-> TRUE, inv |-> inv, inputs |-> RunInputs, run_id |-> g.run_id,
                          artifacts |-> ArtifactsOf(out'[g.run_id])]
    /\ UNCHANGED <<hvars, ovars, lib, fs, env_seed, mode, inv, p>>

\* Mutant of file_set_diff: every entry rglob finds counts, directories too.
file_set_diff_AnyEntry(expected, tree) ==
    LET actual_files == sorted(DOMAIN tree)
        expected_files == sorted(DOMAIN expected)
    IN [missing |-> SelectSeq(expected_files, LAMBDA f : f \notin Range(actual_files)),
        extra |-> SelectSeq(actual_files, LAMBDA f : f \notin Range(expected_files))]

\* Lines 79-87 of assert_no_extra_or_missing_files: the regular files that
\* rglob("*") finds under the directory, the expected keys, and the two lists.
\* (Paths of a tree are relative to its root and written with "/".)
file_set_diff(expected, tree) ==
    LET actual_files == sorted({q \in DOMAIN tree : tree[q].kind = "file"})
        expected_files == sorted(DOMAIN expected)
    IN [missing |-> SelectSeq(expected_files, LAMBDA f : f \notin Range(actual_files)),
        extra |-> SelectSeq(actual_files, LAMBDA f : f \notin Range(expected_files))]

\* Mutant of assert_no_extra_or_missing_files: extra files are tolerated.
assert_no_extra_or_missing_files_MissingOnly(expected, tree) ==
    LET d == file_set_diff(expected, tree)
    IN IF d.missing # <<>>
       THEN [ok |-> FALSE, message |-> "Missing output files", listed |-> d.missing]
       ELSE [ok |-> TRUE]

\* assert_no_extra_or_missing_files: what it raises, if it raises (lines 89-92).
assert_no_extra_or_missing_files(expected, tree) ==
    LET d == file_set_diff(expected, tree)
    IN IF d.missing # <<>>
       THEN [ok |-> FALSE, message |-> "Missing output files", listed |-> d.missing]
       ELSE IF d.extra # <<>>
       THEN [ok |-> FALSE, message |-> "Unexpected extra output files", listed |-> d.extra]
       ELSE [ok |-> TRUE]

\* The expected keys whose digest differs from the artifact's (lines 171-174).
hash_mismatches(expected, tree) ==
    {rel \in DOMAIN expected :
        LowerHex(sha256_bytes(tree[rel].data)) # LowerHex(expected[rel])}

\* Lines 164-179: the comparison against the expected manifest, or its bypass.
\* The loop of lines 171-174 raises at the first differing key in the order
\* the manifest file lists its keys; that order is not part of a file's
\* content here, so any differing key may be the one the message names.
G_Compare ==
    /\ g.pc = "compare"
    /\ IF SkipCompare(g.skip_env)
       THEN g' = [g EXCEPT !.pc = "passed", !.notice = TRUE]
       ELSE IF ExpectedManifestPath \notin DOMAIN fs
       THEN g' = [Abort(g, "FileNotFoundError") EXCEPT !.checks = {"load"}]
       ELSE LET expected == read_manifest_json(ExpectedManifestPath)
                tree == out[g.run_id]
            IN IF ~expected.ok
               THEN g' = [AbortWith(g, "ManifestParseError",
                                    [path |-> ExpectedManifestPath, message |-> expected.error])
                          EXCEPT !.checks = {"load"}]
               ELSE LET files == assert_no_extra_or_missing_files(expected.map, tree)
                    IN IF ~files.ok
                       THEN g' = [AbortWith(g, "FileSetMismatch",
                                            [message |-> files.message, listed |-> files.listed])
                                  EXCEPT !.checks = {"load", "file set"}]
                       ELSE IF hash_mismatches(expected.map, tree) = {}
                       THEN g' = [g EXCEPT !.pc = "passed",
                                           !.checks = {"load", "file set", "hashes"}]
                       ELSE \E rel \in hash_mismatches(expected.map, tree) :
                               g' = [AbortWith(g, "GoldenMismatch",
                                        [files |-> <<rel>>,
                                         expected |-> expected.map[rel],
                                         got |-> sha256_bytes(tree[rel].data)])
                                     EXCEPT !.checks = {"load", "file set", "hashes"}]
    /\ UNCHANGED <<hvars, ovars, lib, fs, out, env_seed, mode, inv, p, first_run>>

\* run_golden.py exits: status 0 after "GOLDEN PASS", non-zero after an error.
ReturnRun ==
    /\ mode = "run"
    /\ g.pc \in {"passed", "aborted"}
    /\ mode' = "idle"
    /\ UNCHANGED <<hvars, ovars, lib, fs, out, env_seed, inv, g, p, first_run>>

\* `python pin_golden_hashes.py`
InvokePin ==
    /\ mode = "idle"
    /\ inv < MaxInvocations
    /\ mode' = "pin"
    /\ inv' = inv + 1
    /\ p' = [PinLocals EXCEPT !.seed = SeedOf(PIN_DEFAULT_SEED), !.first = p.first]
    /\ UNCHANGED <<hvars, ovars, lib, fs, out, env_seed, g, first_run>>

\* 1) Pin fixtures manifest (lines 34-41).
P_PinFixtures ==
    /\ p.pc = "pin_fixtures"
    /\ IF FixtureNames \subseteq DOMAIN fs
       THEN /\ fs' = [q \in DOMAIN fs \cup {FixturesManifestPath} |->
                        IF q = FixturesManifestPath
                        THEN manifest_json_bytes([n \in FixtureNames |-> sha256_file(n)])
                        ELSE fs[q]]
            /\ p' = [p EXCEPT !.pc = "run_golden",
                              !.replaced = (FixturesManifestPath \notin DOMAIN fs
                                            \/ fs'[FixturesManifestPath] # fs[FixturesManifestPath])]
       ELSE /\ p' = Abort(p, "FileNotFoundError")
            /\ fs' = fs
    /\ UNCHANGED <<hvars, ovars, lib, out, env_seed, mode, inv, g, first_run>>

\* 2) run_main() is entered with GOLDEN_SKIP_COMPARE=1 (lines 44-47).
P_RunGolden ==
    /\ p.pc = "run_golden"
    /\ g' = GoldenLocals(EnvText(<<"1">>))
    /\ p' = [p EXCEPT !.pc = "in_run_main"]
    /\ UNCHANGED <<hvars, ovars, lib, fs, out, env_seed, mode, inv, first_run>>

\* Mutant of P_RunFailed: the exception of run_main() is swallowed and the pin
\* goes on to step 3.
P_RunFailed_GoesOn ==
    /\ p.pc = "in_run_main"
    /\ g.pc = "aborted"
    /\ p' = [p EXCEPT !.run_id = pin_compute_run_id(sha256_file(ContractPath),
                                                    sha256_file(FixturesManifestPath),
                                                    p.seed),
                      !.pc = "pin_expected"]
    /\ UNCHANGED <<hvars, ovars, lib, fs, out, env_seed, mode, inv, g, first_run>>

\* run_main() raised: the exception ends the pin command.
P_RunFailed ==
    /\ p.pc = "in_run_main"
    /\ g.pc = "aborted"
    /\ p' = Abort(p, g.error)
    /\ UNCHANGED <<hvars, ovars, lib, fs, out, env_seed, mode, inv, g, first_run>>

\* 3) run_main() returned: the run id is computed again (lines 50-54).
P_ComputeRunId ==
    /\ p.pc = "in_run_main"
    /\ g.pc = "passed"
    /\ p' = [p EXCEPT !.run_id = pin_compute_run_id(sha256_file(ContractPath),
                                                    sha256_file(FixturesManifestPath),
                                                    p.seed),
                      !.pc = "pin_expected"]
    /\ UNCHANGED <<hvars, ovars, lib, fs, out, env_seed, mode, inv, g, first_run>>

\* What the pin command derives the two manifests from: the contract file,
\* the fixture files and GOLDEN_SEED.
PinInputs == <<[q \in DOMAIN fs \cap (FixtureNames \cup {ContractPath}) |-> fs[q]], env_seed>>

\* The pin that finishes with these manifests on disk, if it is the first.
PinHistory(files) ==
    IF p.first.done THEN p.first
    ELSE [done |-> TRUE, inv |-> inv, inputs |-> PinInputs,
          fixtures |-> files[FixturesManifestPath], expected |-> files[ExpectedManifestPath]]

\* Mutant of P_PinExpected: an expected manifest that exists is left as it is.
P_PinExpected_KeepExisting ==
    /\ p.pc = "pin_expected"
    /\ IF p.run_id \in DOMAIN out /\ ArtifactNames \subseteq RegularFiles(out[p.run_id])
       THEN /\ fs' = [q \in DOMAIN fs \cup {ExpectedManifestPath} |->
                        IF q = ExpectedManifestPath /\ q \notin DOMAIN fs
                        THEN manifest_json_bytes(
                                [n \in ArtifactNames |-> sha256_bytes(out[p.run_id][n].data)])
                        ELSE fs[q]]
            /\ p' = [p EXCEPT !.pc = "done", !.first = PinHistory(fs')]
       ELSE /\ p' = Abort(p, "FileNotFoundError")
            /\ fs' = fs
    /\ UNCHANGED <<hvars, ovars, lib, out, env_seed, mode, inv, g, first_run>>

\* Mutant of P_PinExpected: only the four core artifacts are pinned.
P_PinExpected_CoreOnly ==
    /\ p.pc = "pin_expected"
    /\ IF p.run_id \in DOMAIN out /\ ArtifactNames \subseteq RegularFiles(out[p.run_id])
       THEN /\ fs' = [q \in DOMAIN fs \cup {ExpectedManifestPath} |->
                        IF q = ExpectedManifestPath
                        THEN manifest_json_bytes(
                                [n \in Range(CoreArtifacts) |-> sha256_bytes(out[p.run_id][n].data)])
                        ELSE fs[q]]
            /\ p' = [p EXCEPT !.pc = "done", !.first = PinHistory(fs')]
       ELSE /\ p' = Abort(p, "FileNotFoundError")
            /\ fs' = fs
    /\ UNCHANGED <<hvars, ovars, lib, out, env_seed, mode, inv, g, first_run>>

\* 4) Pin expected manifest from outputs (lines 56-66).
P_PinExpected ==
    /\ p.pc = "pin_expected"
    /\ IF p.run_id \in DOMAIN out /\ ArtifactNames \subseteq RegularFiles(out[p.run_id])
       THEN /\ fs' = [q \in DOMAIN fs \cup {ExpectedManifestPath} |->
                        IF q = ExpectedManifestPath
                        THEN manifest_json_bytes(
                                [n \in ArtifactNames |-> sha256_bytes(out[p.run_id][n].data)])
                        ELSE fs[q]]
            /\ p' = [p EXCEPT !.pc = "done", !.first = PinHistory(fs')]
       ELSE /\ p' = Abort(p, "FileNotFoundError")
            /\ fs' = fs
    /\ UNCHANGED <<hvars, ovars, lib, out, env_seed, mode, inv, g, first_run>>

\* pin_golden_hashes.py exits.
ReturnPin ==
    /\ mode = "pin"
    /\ p.pc \in {"done", "aborted"}
    /\ mode' = "idle"
    /\ UNCHANGED <<hvars, ovars, lib, fs, out, env_seed, inv, g, p, first_run>>

\* The manifest pin has just written into expected/.
PinnedManifest == [n \in ArtifactNames |-> sha256_bytes(out[p.run_id][n].data)]

WithoutKey(m, k) == [n \in DOMAIN m \ {k} |-> m[n]]
WithKey(m, k, v) == [n \in DOMAIN m \cup {k} |-> IF n = k THEN v ELSE m[n]]

\* What a hand edit may leave in golden_expected_manifest.json: digests in
\* capitals, one or two digests of other bytes, a key added, a key removed,
\* both, a JSON list, a number for a digest, bytes that are no JSON.
ExpectedEdits(m) ==
    LET other == sha256_bytes(RawBytes("old bytes"))
    IN {canonical_json_bytes(JsonDict([n \in DOMAIN m |-> UpperHex(m[n])])),
        canonical_json_bytes(JsonDict([m EXCEPT !["hashes.json"] = other])),
        canonical_json_bytes(JsonDict([m EXCEPT !["hashes.json"] = other,
                                               !["export_bundle.json"] = other])),
        canonical_json_bytes(JsonDict(WithKey(m, "ghost.json", other))),
        canonical_json_bytes(JsonDict(WithoutKey(m, "workflow_report.json"))),
        canonical_json_bytes(JsonDict(WithKey(WithoutKey(m, "workflow_report.json"),
                                              "ghost.json", other))),
        canonical_json_bytes(JsonList),
        canonical_json_bytes(JsonDict([m EXCEPT !["hashes.json"] = JsonNumber])),
        RawBytes("{ not json")}

\* Between two commands the expected manifest that pin wrote is edited by hand
\* (the file is an input of run_golden.py, line 57, read at line 168).
EditExpected ==
    /\ mode = "idle"
    /\ inv < MaxInvocations
    /\ p.pc = "done"
    /\ fs[ExpectedManifestPath] = manifest_json_bytes(PinnedManifest)
    /\ \E bytes \in ExpectedEdits(PinnedManifest) :
          fs' = [fs EXCEPT ![ExpectedManifestPath] = bytes]
    /\ UNCHANGED <<hvars, ovars, lib, out, env_seed, mode, inv, g, p, first_run>>

\* The interview payloads a fixture file may hold.
InterviewDocs ==
    {[interview_payload_id |-> "ip-1", received_at |-> "2026-01-01", facts_summary |-> s] :
        s \in {"facts-a", "facts-b"}}

\* Between two commands, after a pin, a fixture file is edited: the interview
\* payload that was pinned gets the other facts summary (fixtures are inputs,
\* run_golden.py lines 78-80 and pin_golden_hashes.py lines 36-40).
EditFixture ==
    /\ mode = "idle"
    /\ inv < MaxInvocations
    /\ p.pc = "done"
    /\ fs["interview_payload.json"] = p.first.inputs[1]["interview_payload.json"]
    /\ \E interview \in InterviewDocs :
          /\ fs["interview_payload.json"] # canonical_json_bytes(interview)
          /\ fs' = [fs EXCEPT !["interview_payload.json"] = canonical_json_bytes(interview)]
    /\ UNCHANGED <<hvars, ovars, lib, out, env_seed, mode, inv, g, p, first_run>>

GoldenNext ==
    \/ EditFixture
    \/ InvokeRun
    \/ G_HashInputs
    \/ G_CleanOutDir
    \/ G_ValidateFixtures
    \/ G_LoadFixtures
    \/ G_WriteArtifacts
    \/ G_WriteHashes
    \/ G_WriteReport
    \/ G_Compare
    \/ ReturnRun
    \/ InvokePin
    \/ P_PinFixtures
    \/ P_RunGolden
    \/ P_RunFailed
    \/ P_ComputeRunId
    \/ P_PinExpected
    \/ ReturnPin
    \/ EditExpected

\* Other fixture documents on disk.
CaseMetaDocs ==
    {[case_id |-> "case-1", caption |-> "A v. B", jurisdiction |-> "CA", parties |-> <<"A", "B">>]}
CapMockDocs ==
    {[tool_calls |-> <<[tool |-> "search", args |-> "q"]>>], [note |-> "no calls"]}

\* What fixtures_manifest.json may hold before a command runs, for given fixtures.
FixturesManifestChoices(files) ==
    {manifest_json_bytes([n \in DOMAIN files |-> sha256_bytes(files[n])]),
     manifest_json_bytes([n \in FixtureNames |-> sha256_bytes(RawBytes("old bytes"))]),
     canonical_json_bytes(JsonList)}

\* What the output directory of a run may hold before the run.
StaleTrees ==
    {<<>>,
     [q \in {"stale.txt", "sub", "sub/old.json"} |->
         IF q = "sub" THEN [kind |-> "dir"] ELSE File(RawBytes("left over"))],
     [q \in {"export_bundle.json", "hashes.json"} |-> File(RawBytes("left over"))]}

\* Part II at rest while the harness runs.
GoldenIdle ==
    /\ fs = <<>>
    /\ out = <<>>
    /\ env_seed = Absent
    /\ mode = "off"
    /\ inv = 0
    /\ g = GoldenOff
    /\ p = PinOff
    /\ first_run = [done |-> FALSE]
    /\ lib = LibOff
    /\ rp = ReplayOff
    /\ mig = MigrateOff

\* The harness at rest while the golden commands run.
HarnessIdle ==
    /\ request = [agent_role |-> PyNone, lane_id |-> PyNone, tool_name |-> PyNone]
    /\ roles = {}
    /\ lanes_allowed = <<>>
    /\ lane_tools = <<>>
    /\ tool_registry = <<>>
    /\ pc = "off"
    /\ h = HarnessLocals("2026-02-23T18:00:00Z", 1, NoRun)
    /\ run_record = build_run_record(request)
    /\ events = <<>>
    /\ lane_ok = FALSE
    /\ lane_reason = PyNone
    /\ allowed = FALSE
    /\ deny_reason = PyNone
    /\ out_files = <<>>

\* The repository before a golden command: the contract file, the fixture files
\* (case_meta.json possibly missing, capability_gateway_mock.json possibly not
\* JSON), the two manifests (each possibly missing),
\* and possibly a left-over output directory under the id the run will get.
GoldenInit ==
    /\ HarnessIdle
    /\ env_seed \in {Absent, "7"}
    /\ \E contract \in {RawBytes("contract v1"), RawBytes("contract v1 edited")},
          interview \in InterviewDocs,
          case_meta \in CaseMetaDocs,
          has_case_meta \in BOOLEAN,
          cap_mock \in CapMockDocs,
          cap_mock_is_json \in BOOLEAN,
          has_manifest \in BOOLEAN,
          has_expected \in BOOLEAN :
          LET fixtures ==
                 [n \in (IF has_case_meta THEN FixtureNames
                         ELSE FixtureNames \ {"case_meta.json"}) |->
                    IF n = "interview_payload.json" THEN canonical_json_bytes(interview)
                    ELSE IF n = "case_meta.json" THEN canonical_json_bytes(case_meta)
                    ELSE IF cap_mock_is_json THEN canonical_json_bytes(cap_mock)
                    ELSE RawBytes("{ not json")]
          IN \E manifest \in FixturesManifestChoices(fixtures) :
                LET names == DOMAIN fixtures \cup {ContractPath}
                                \cup (IF has_manifest THEN {FixturesManifestPath} ELSE {})
                                \cup (IF has_expected THEN {ExpectedManifestPath} ELSE {})
                    files == [q \in names |->
                                IF q = ContractPath THEN contract
                                ELSE IF q = FixturesManifestPath THEN manifest
                                ELSE IF q = ExpectedManifestPath
                                THEN manifest_json_bytes(
                                        [n \in {"export_bundle.json"} |-> sha256_bytes(RawBytes("old bytes"))])
                                ELSE fixtures[q]]
                    run_id == compute_run_id(sha256_bytes(contract), sha256_bytes(manifest),
                                             SeedOf(DEFAULT_SEED))
                IN /\ fs = files
                   /\ \E stale \in StaleTrees, has_out \in BOOLEAN :
                         out = [r \in (IF has_out THEN {run_id} ELSE {}) |-> stale]
    /\ mode = "idle"
    /\ inv = 0
    /\ g = GoldenOff
    /\ p = PinOff
    /\ first_run = [done |-> FALSE]
    /\ lib = LibOff
    /\ rp = ReplayOff
    /\ mig = MigrateOff

(* ---------------------------------------------------------------------- *)
(* Part III: the functions of lib/canonical.py called on their own         *)
(* (specification LibSpec).  Part II takes the bytes of a canonical        *)
(* document to be the document; here the encoder is followed token by      *)
(* token, on documents that keep the insertion order of their keys.        *)
(* ---------------------------------------------------------------------- *)

\* Most items of a mapping or of a sequence of a document.
MaxItems == 2

\* Python values json.dumps supports.  A dict is the sequence of its
\* (key, value) pairs in insertion order.
PyStr(s) == [t |-> "str", s |-> s]
PyNum(n) == [t |-> "num", n |-> n]
PyBool(b) == [t |-> "bool", b |-> b]
PyNull == [t |-> "null"]
PyList(items) == [t |-> "list", items |-> items]
PyDict(pairs) == [t |-> "dict", items |-> pairs]

\* The characters of a JSON text, by token: a punctuation mark, a literal,
\* a quoted string, a number, and "\n" followed by 2 * depth spaces.
Tok(c) == [c |-> c]
NL(depth) == [nl |-> depth]
StrTok(s) == [str |-> s]
NumTok(n) == [num |-> n]

\* Mutant of sort_items: the pairs are written in insertion order.
sort_items_Unsorted(pairs) == pairs

\* sort_keys=True: the pairs of a dict ordered by key.
sort_items(pairs) ==
    LET keys == sorted({pairs[i][1] : i \in 1..Len(pairs)})
    IN [j \in 1..Len(keys) |-> pairs[CHOOSE i \in 1..Len(pairs) : pairs[i][1] = keys[j]]]

RECURSIVE json_dumps(_, _)
RECURSIVE dumps_members(_, _, _)
RECURSIVE dumps_elements(_, _, _)

\* The members of a non-empty dict from the i-th on, each on its own line at
\* `level`, separated by ",".
dumps_members(pairs, i, level) ==
    IF i > Len(pairs) THEN <<>>
    ELSE (IF i > 1 THEN <<Tok(",")>> ELSE <<>>)
         \o <<NL(level), StrTok(pairs[i][1]), Tok(":")>>
         \o json_dumps(pairs[i][2], level)
         \o dumps_members(pairs, i + 1, level)

\* The elements of a non-empty list from the i-th on.
dumps_elements(items, i, level) ==
    IF i > Len(items) THEN <<>>
    ELSE (IF i > 1 THEN <<Tok(",")>> ELSE <<>>)
         \o <<NL(level)>>
         \o json_dumps(items[i], level)
         \o dumps_elements(items, i + 1, level)

\* json.dumps(obj, sort_keys=True, ensure_ascii=False, separators=(",", ":"),
\* indent=2), for a value nested `level` deep.
json_dumps(obj, level) ==
    IF obj.t = "dict"
    THEN IF obj.items = <<>> THEN <<Tok("{"), Tok("}")>>
         ELSE <<Tok("{")>> \o dumps_members(sort_items(obj.items), 1, level + 1)
                           \o <<NL(level), Tok("}")>>
    ELSE IF obj.t = "list"
    THEN IF obj.items = <<>> THEN <<Tok("["), Tok("]")>>
         ELSE <<Tok("[")>> \o dumps_elements(obj.items, 1, level + 1)
                           \o <<NL(level), Tok("]")>>
    ELSE IF obj.t = "str" THEN <<StrTok(obj.s)>>
    ELSE IF obj.t = "num" THEN <<NumTok(obj.n)>>
    ELSE IF obj.t = "bool" THEN <<Tok(IF obj.b THEN "true" ELSE "false")>>
    ELSE <<Tok("null")>>

\* Mutant of canonical_json_text: no newline is added at the end.
canonical_json_text_NoNewline(obj) == json_dumps(obj, 0)

\* canonical_json_bytes, token by token: the dump followed by "\n".
canonical_json_text(obj) == json_dumps(obj, 0) \o <<NL(0)>>

RECURSIVE compact_dumps(_)
RECURSIVE compact_members(_, _)
RECURSIVE compact_elements(_, _)

\* The members of a dict from the i-th on, on one line, separated by ",".
compact_members(pairs, i) ==
    IF i > Len(pairs) THEN <<>>
    ELSE (IF i > 1 THEN <<Tok(",")>> ELSE <<>>)
         \o <<StrTok(pairs[i][1]), Tok(":")>>
         \o compact_dumps(pairs[i][2])
         \o compact_members(pairs, i + 1)

\* The elements of a list from the i-th on, on one line.
compact_elements(items, i) ==
    IF i > Len(items) THEN <<>>
    ELSE (IF i > 1 THEN <<Tok(",")>> ELSE <<>>)
         \o compact_dumps(items[i])
         \o compact_elements(items, i + 1)

\* json.dumps(obj, sort_keys=True, ensure_ascii=False, separators=(",", ":")):
\* no indent, so no newline and no space anywhere.
compact_dumps(obj) ==
    IF obj.t = "dict"
    THEN <<Tok("{")>> \o compact_members(sort_items(obj.items), 1) \o <<Tok("}")>>
    ELSE IF obj.t = "list"
    THEN <<Tok("[")>> \o compact_elements(obj.items, 1) \o <<Tok("]")>>
    ELSE IF obj.t = "str" THEN <<StrTok(obj.s)>>
    ELSE IF obj.t = "num" THEN <<NumTok(obj.n)>>
    ELSE IF obj.t = "bool" THEN <<Tok(IF obj.b THEN "true" ELSE "false")>>
    ELSE <<Tok("null")>>

\* "\n".join(lines), from the i-th line on.
RECURSIVE join_lines(_, _)
join_lines(lines, i) ==
    IF i > Len(lines) THEN <<>>
    ELSE (IF i > 1 THEN <<NL(0)>> ELSE <<>>) \o lines[i] \o join_lines(lines, i + 1)

\* Mutant of canonical_jsonl_text: every line is ended by a newline, so the
\* empty sequence gives the empty text.
canonical_jsonl_text_PerLine(objs) ==
    IF objs = <<>> THEN <<>>
    ELSE join_lines([i \in 1..Len(objs) |-> compact_dumps(objs[i])], 1) \o <<NL(0)>>

\* canonical_jsonl_bytes, token by token: one compact dump per element,
\* joined by "\n", and "\n" at the end.
canonical_jsonl_text(objs) ==
    join_lines([i \in 1..Len(objs) |-> compact_dumps(objs[i])], 1) \o <<NL(0)>>

IsTok(toks, i, c) == i <= Len(toks) /\ "c" \in DOMAIN toks[i] /\ toks[i].c = c

\* Whitespace between the tokens of a JSON text is skipped.
RECURSIVE skip_ws(_, _)
skip_ws(toks, i) ==
    IF i <= Len(toks) /\ "nl" \in DOMAIN toks[i] THEN skip_ws(toks, i + 1) ELSE i

ParseError == [ok |-> FALSE]
Parsed(val, next) == [ok |-> TRUE, val |-> val, next |-> next]

\* d[k] = v on a dict: a key seen again keeps its place and takes the new value.
dict_set(pairs, k, v) ==
    IF \E i \in 1..Len(pairs) : pairs[i][1] = k
    THEN [i \in 1..Len(pairs) |-> IF pairs[i][1] = k THEN <<k, v>> ELSE pairs[i]]
    ELSE Append(pairs, <<k, v>>)

RECURSIVE parse_value(_, _)
RECURSIVE parse_members(_, _, _)
RECURSIVE parse_elements(_, _, _)

\* After "{" or ",": a key, ":", a value, then "," or "}".
parse_members(toks, i0, acc) ==
    LET i == skip_ws(toks, i0)
    IN IF i > Len(toks) \/ "str" \notin DOMAIN toks[i] THEN ParseError
       ELSE LET j == skip_ws(toks, i + 1)
            IN IF ~IsTok(toks, j, ":") THEN ParseError
               ELSE LET r == parse_value(toks, j + 1)
                    IN IF ~r.ok THEN ParseError
                       ELSE LET n == skip_ws(toks, r.next)
                                pairs == dict_set(acc, toks[i].str, r.val)
                            IN IF IsTok(toks, n, ",") THEN parse_members(toks, n + 1, pairs)
                               ELSE IF IsTok(toks, n, "}") THEN Parsed(PyDict(pairs), n + 1)
                               ELSE ParseError

\* After "[" or ",": a value, then "," or "]".
parse_elements(toks, i0, acc) ==
    LET r == parse_value(toks, i0)
    IN IF ~r.ok THEN ParseError
       ELSE LET n == skip_ws(toks, r.next)
                items == Append(acc, r.val)
            IN IF IsTok(toks, n, ",") THEN parse_elements(toks, n + 1, items)
               ELSE IF IsTok(toks, n, "]") THEN Parsed(PyList(items), n + 1)
               ELSE ParseError

\* One JSON value starting at toks[i0], and where it ends.
parse_value(toks, i0) ==
    LET i == skip_ws(toks, i0)
    IN IF i > Len(toks) THEN ParseError
       ELSE IF IsTok(toks, i, "{")
       THEN IF IsTok(toks, skip_ws(toks, i + 1), "}")
            THEN Parsed(PyDict(<<>>), skip_ws(toks, i + 1) + 1)
            ELSE parse_members(toks, i + 1, <<>>)
       ELSE IF IsTok(toks, i, "[")
       THEN IF IsTok(toks, skip_ws(toks, i + 1), "]")
            THEN Parsed(PyList(<<>>), skip_ws(toks, i + 1) + 1)
            ELSE parse_elements(toks, i + 1, <<>>)
       ELSE IF "str" \in DOMAIN toks[i] THEN Parsed(PyStr(toks[i].str), i + 1)
       ELSE IF "num" \in DOMAIN toks[i] THEN Parsed(PyNum(toks[i].num), i + 1)
       ELSE IF IsTok(toks, i, "true") THEN Parsed(PyBool(TRUE), i + 1)
       ELSE IF IsTok(toks, i, "false") THEN Parsed(PyBool(FALSE), i + 1)
       ELSE IF IsTok(toks, i, "null") THEN Parsed(PyNull, i + 1)
       ELSE ParseError

\* json.loads(text): the value, or JSONDecodeError (text that is no value, or
\* has something other than whitespace after it).
json_loads(toks) ==
    LET r == parse_value(toks, 1)
    IN IF r.ok /\ skip_ws(toks, r.next) > Len(toks)
       THEN [ok |-> TRUE, val |-> r.val]
       ELSE [ok |-> FALSE, error |-> "JSONDecodeError"]

\* Documents the encoder is called on: scalars, empty and nested containers
\* with unsorted keys, and mappings and sequences of up to MaxItems of those.
CanonKeys == {"a", "b", "c"}
CanonInner ==
    {PyStr("x"), PyNum(7), PyBool(TRUE), PyNull, PyDict(<<>>), PyList(<<>>),
     PyDict(<<<<"b", PyNum(7)>>, <<"a", PyStr("x")>>>>),
     PyList(<<PyDict(<<<<"c", PyNull>>, <<"a", PyBool(FALSE)>>>>), PyNum(7)>>)}
KeySeqs == {ks \in SeqsUpTo(CanonKeys, MaxItems) : \A i, j \in 1..Len(ks) : i # j => ks[i] # ks[j]}
CanonDocs ==
    CanonInner
    \cup UNION {{PyDict([i \in 1..Len(ks) |-> <<ks[i], vs[i]>>]) :
                    vs \in {v \in SeqsUpTo(CanonInner, MaxItems) : Len(v) = Len(ks)}} :
                 ks \in KeySeqs}
    \cup {PyList(vs) : vs \in SeqsUpTo(CanonInner, MaxItems)}

\* Digests a manifest may hold, and manifests handed to write_manifest_json.
ManifestDigests ==
    {sha256_bytes(RawBytes("left over")), UpperHex(sha256_bytes(RawBytes("left over"))),
     sha256_bytes(RawBytes("old bytes"))}
ManifestKeys == {"a.json", "b.json"}
Manifests == UNION {[ks -> ManifestDigests] : ks \in SUBSET ManifestKeys}

ScratchManifestPath == "scratch/manifest.json"

\* Files handed to read_manifest_json, with what they are.
JsonString == [t |-> "string"]
ManifestFiles ==
    {[kind |-> "flat", bytes |-> canonical_json_bytes(JsonDict(m))] : m \in Manifests}
    \cup {[kind |-> "list", bytes |-> canonical_json_bytes(JsonList)],
          [kind |-> "scalar", bytes |-> canonical_json_bytes(JsonNumber)],
          [kind |-> "scalar", bytes |-> canonical_json_bytes(JsonString)],
          [kind |-> "not json", bytes |-> RawBytes("{ not json")]}
    \cup {[kind |-> "non-string value",
           bytes |-> canonical_json_bytes(JsonDict([m EXCEPT ![k] = v]))] :
             m \in {x \in Manifests : DOMAIN x = ManifestKeys}, k \in ManifestKeys,
             v \in {JsonNumber, JsonList, JsonDict(<<>>)}}

\* Directory trees and expected key sets handed to the file-set check.
DiffRoot == "scratch/out"
DiffPaths == {"a.json", "b.json", "c.json", "d", "d/e.json"}
DiffTrees ==
    {[q \in files \cup dirs \cup under |->
         IF q \in files \cup under THEN File(RawBytes("left over")) ELSE [kind |-> "dir"]] :
       files \in SUBSET {"a.json", "b.json", "c.json"},
       dirs \in {{}, {"d"}, {"d", "c.json"}},
       under \in {{}, {"d/e.json"}}}
DiffExpected == UNION {[ks -> {sha256_bytes(RawBytes("left over"))}] : ks \in SUBSET DiffPaths}

\* Sequences handed to canonical_jsonl_bytes: the empty one, and up to
\* MaxItems scalars, containers and mappings with unsorted keys.
JsonlInputs == SeqsUpTo(CanonInner, MaxItems)

\* A function of lib/canonical.py is about to be called on an input.
LibInit ==
    /\ HarnessIdle
    /\ env_seed = Absent
    /\ mode = "off"
    /\ inv = 0
    /\ g = GoldenOff
    /\ p = PinOff
    /\ first_run = [done |-> FALSE]
    /\ rp = ReplayOff
    /\ mig = MigrateOff
    /\ \/ \E tree \in {t \in DiffTrees : "d/e.json" \in DOMAIN t => "d" \in DOMAIN t /\ t["d"].kind = "dir"},
             expected \in DiffExpected :
             /\ out = [r \in {DiffRoot} |-> tree]
             /\ fs = <<>>
             /\ lib = [pc |-> "diff", expected |-> expected]
       \/ \E m \in Manifests :
             /\ out = <<>>
             /\ fs = <<>>
             /\ lib = [pc |-> "write_manifest", kind |-> "flat", mapping |-> m]
       \/ \E f \in ManifestFiles :
             /\ out = <<>>
             /\ fs = [q \in {ScratchManifestPath} |-> f.bytes]
             /\ lib = [pc |-> "read_manifest", kind |-> f.kind, rewrite |-> FALSE]
       \/ \E obj \in CanonDocs :
             /\ out = <<>>
             /\ fs = <<>>
             /\ lib = [pc |-> "encode", obj |-> obj]
       \/ \E objs \in JsonlInputs :
             /\ out = <<>>
             /\ fs = <<>>
             /\ lib = [pc |-> "encode_lines", objs |-> objs]

\* assert_no_extra_or_missing_files(expected, out_dir)
L_Diff ==
    /\ lib.pc = "diff"
    /\ lib' = [pc |-> "diffed", expected |-> lib.expected,
               missing |-> file_set_diff(lib.expected, out[DiffRoot]).missing,
               extra |-> file_set_diff(lib.expected, out[DiffRoot]).extra,
               raised |-> assert_no_extra_or_missing_files(lib.expected, out[DiffRoot])]
    /\ UNCHANGED <<hvars, ovars, fs, out, env_seed, mode, inv, g, p, first_run>>

\* write_manifest_json(path, mapping)
L_WriteManifest ==
    /\ lib.pc = "write_manifest"
    /\ fs' = [q \in {ScratchManifestPath} |-> manifest_json_bytes(lib.mapping)]
    /\ lib' = [pc |-> "read_manifest", kind |-> lib.kind, rewrite |-> TRUE,
               first |-> manifest_json_bytes(lib.mapping)]
    /\ UNCHANGED <<hvars, ovars, out, env_seed, mode, inv, g, p, first_run>>

\* read_manifest_json(path)
L_ReadManifest ==
    /\ lib.pc = "read_manifest"
    /\ LET loaded == read_manifest_json(ScratchManifestPath)
       IN lib' = IF lib.rewrite /\ loaded.ok
                 THEN [pc |-> "rewrite_manifest", kind |-> lib.kind, first |-> lib.first,
                       file |-> fs[ScratchManifestPath], loaded |-> loaded]
                 ELSE [pc |-> "read", kind |-> lib.kind,
                       file |-> fs[ScratchManifestPath], loaded |-> loaded]
    /\ UNCHANGED <<hvars, ovars, fs, out, env_seed, mode, inv, g, p, first_run>>

\* write_manifest_json(path, read_manifest_json(path))
L_RewriteManifest ==
    /\ lib.pc = "rewrite_manifest"
    /\ fs' = [q \in {ScratchManifestPath} |-> manifest_json_bytes(lib.loaded.map)]
    /\ lib' = [pc |-> "rewritten", kind |-> lib.kind, first |-> lib.first,
               file |-> lib.file, loaded |-> lib.loaded]
    /\ UNCHANGED <<hvars, ovars, out, env_seed, mode, inv, g, p, first_run>>

\* canonical_json_bytes(obj)
L_Encode ==
    /\ lib.pc = "encode"
    /\ lib' = [pc |-> "decode", obj |-> lib.obj, first |-> canonical_json_text(lib.obj)]
    /\ UNCHANGED <<hvars, ovars, fs, out, env_seed, mode, inv, g, p, first_run>>

\* load_json of the encoded text
L_Decode ==
    /\ lib.pc = "decode"
    /\ lib' = [pc |-> "reencode", obj |-> lib.obj, first |-> lib.first,
               decoded |-> json_loads(lib.first)]
    /\ UNCHANGED <<hvars, ovars, fs, out, env_seed, mode, inv, g, p, first_run>>

\* canonical_json_bytes of the decoded document
L_Reencode ==
    /\ lib.pc = "reencode"
    /\ lib.decoded.ok
    /\ lib' = [pc |-> "reencoded", obj |-> lib.obj, first |-> lib.first,
               decoded |-> lib.decoded, second |-> canonical_json_text(lib.decoded.val)]
    /\ UNCHANGED <<hvars, ovars, fs, out, env_seed, mode, inv, g, p, first_run>>

\* canonical_jsonl_bytes(objs)
L_EncodeLines ==
    /\ lib.pc = "encode_lines"
    /\ lib' = [pc |-> "lines_encoded", objs |-> lib.objs, text |-> canonical_jsonl_text(lib.objs)]
    /\ UNCHANGED <<hvars, ovars, fs, out, env_seed, mode, inv, g, p, first_run>>

LibNext ==
    \/ L_EncodeLines
    \/ L_Diff
    \/ L_WriteManifest
    \/ L_ReadManifest
    \/ L_RewriteManifest
    \/ L_Encode
    \/ L_Decode
    \/ L_Reencode

(* ---------------------------------------------------------------------- *)
(* Part IV: harness/run_replay.py (specification ReplaySpec).  Files are   *)
(* in `fs` under their path relative to contract/v1.  A file name of the   *)
(* vectors directory is the sequence of the pieces str.replace and         *)
(* str.endswith look at: ".json", ".expected", and text without ".json".   *)
(* ---------------------------------------------------------------------- *)

SCHEMA_VERSION == "replay_equivalence_v1"

\* The directories the command line may name.
ContractRoot == "contract/v1"
VectorsDir == "harness/replay_vectors"
GoldenExpectedDir == "expected"    \* expected/ of the golden commands
NoSuchDir == "harness/no_such_dir"
NoSuchRoot == "no/such/root"

\* str(path.name): the pieces of a name put together.
RECURSIVE Text(_)
Text(name) == IF name = <<>> THEN "" ELSE Head(name) \o Text(Tail(name))

\* Every file name a vectors directory may hold, in the order sorted() gives
\* the paths of one directory.
FileNameOrder ==
    <<<<"a", ".expected", ".json">>,
      <<"a", ".expected", ".json", ".expected", ".json">>,
      <<"a", ".json">>,
      <<"a", ".json", ".json">>,
      <<"b", ".expected", ".json">>,
      <<"b", ".json">>,
      <<"c", ".JSON">>,
      <<"golden_expected_manifest", ".expected", ".json">>,
      <<"golden_expected_manifest", ".json">>,
      <<"notes.txt">>>>

FileNames == Range(FileNameOrder)

\* vectors_dir / name, relative to contract/v1.
PathIn(dir, name) == dir \o "/" \o Text(name)

\* Lines 92 and 191: path.exists() and path.is_file().
is_file(path) == path \in DOMAIN fs

\* Lines 161 and 164: the two directories exist.
dir_exists(dir) == dir \in {ContractRoot, VectorsDir, GoldenExpectedDir}

\* json.dumps(obj, ensure_ascii=False, sort_keys=True, indent=2) + "\n": the
\* separators are ", " and ": ", so the bytes are not canonical_json_bytes(obj).
stable_json_dumps(obj) == [enc |-> "json", style |-> "indent, default separators", doc |-> obj]

default_artifact_paths ==
    <<"contract_manifest.yaml", "lanes.yaml", "acceptance/validate_contract.ps1",
      "acceptance/build_integrity_checklist", "schemas/ddl.sql", "tools/tool_registry.yaml",
      "roles/roles.yaml">>

\* dict.get(key) is None: the key is absent or null.
IsNone(d, key) == key \notin DOMAIN d \/ d[key] = PyNull

\* Line 79: include_paths, when provided, is a list of strings.
include_paths_ok(vector) ==
    \/ IsNone(vector, "include_paths")
    \/ /\ vector["include_paths"].t = "list"
       /\ \A i \in 1..Len(vector["include_paths"].items) :
             vector["include_paths"].items[i].t = "str"

\* The artifact paths of a vector, relative to the contract root.
vector_artifact_paths(vector) ==
    IF IsNone(vector, "include_paths") THEN default_artifact_paths
    ELSE [i \in 1..Len(vector["include_paths"].items) |-> vector["include_paths"].items[i].s]

\* sorted(list): every string as often as the list has it.
RECURSIVE sorted_list(_, _)
sorted_list(strings, i) ==
    IF i > Len(StringOrder) THEN <<>>
    ELSE SelectSeq(strings, LAMBDA q : q = StringOrder[i]) \o sorted_list(strings, i + 1)

\* Path.stem of a name matched by "*.json".
stem(name) == Text(SubSeq(name, 1, Len(name) - 1))

\* vector.get("id") or vector_path.stem
vector_id(vector, name) ==
    IF IsNone(vector, "id") \/ vector["id"] = PyStr("") THEN stem(name) ELSE vector["id"].s

\* The key of the vector file itself: its path relative to the repository root.
vector_key(dir, name) == ContractRoot \o "/" \o PathIn(dir, name)

\* Mutant of compute_outputs: the missing paths are listed as they come.
compute_outputs_Unsorted(dir, name, vector) ==
    LET artifacts == vector_artifact_paths(vector)
        found == {q \in Range(artifacts) : is_file(q)}
    IN [schema_version |-> SCHEMA_VERSION,
        vector_id |-> vector_id(vector, name),
        fingerprints |-> [k \in found \cup {vector_key(dir, name)} |->
                             IF k = vector_key(dir, name) THEN sha256_file(PathIn(dir, name))
                             ELSE sha256_file(k)],
        missing_artifacts |-> SelectSeq(artifacts, LAMBDA q : ~is_file(q))]

\* Mutant of compute_outputs: only the vector file itself is fingerprinted.
compute_outputs_VectorOnly(dir, name, vector) ==
    LET artifacts == vector_artifact_paths(vector)
    IN [schema_version |-> SCHEMA_VERSION,
        vector_id |-> vector_id(vector, name),
        fingerprints |-> [k \in {vector_key(dir, name)} |-> sha256_file(PathIn(dir, name))],
        missing_artifacts |-> sorted_list(SelectSeq(artifacts, LAMBDA q : ~is_file(q)), 1)]

\* Mutant of compute_outputs: the vector file itself is not fingerprinted.
compute_outputs_NoVector(dir, name, vector) ==
    LET artifacts == vector_artifact_paths(vector)
        found == {q \in Range(artifacts) : is_file(q)}
    IN [schema_version |-> SCHEMA_VERSION,
        vector_id |-> vector_id(vector, name),
        fingerprints |-> [k \in found |-> sha256_file(k)],
        missing_artifacts |-> sorted_list(SelectSeq(artifacts, LAMBDA q : ~is_file(q)), 1)]

\* compute_outputs(vector_path, contract_root, vector), lines 85-107.
compute_outputs(dir, name, vector) ==
    LET artifacts == vector_artifact_paths(vector)
        found == {q \in Range(artifacts) : is_file(q)}
    IN [schema_version |-> SCHEMA_VERSION,
        vector_id |-> vector_id(vector, name),
        fingerprints |-> [k \in found \cup {vector_key(dir, name)} |->
                             IF k = vector_key(dir, name) THEN sha256_file(PathIn(dir, name))
                             ELSE sha256_file(k)],
        missing_artifacts |-> sorted_list(SelectSeq(artifacts, LAMBDA q : ~is_file(q)), 1)]

\* The fields diff_expected compares, in the order it compares them.
ComparedFields == <<"schema_version", "vector_id", "missing_artifacts", "fingerprints">>

\* f"Mismatch at '{key}': computed != expected"
Mismatch(key) == [mismatch_at |-> key]

\* Mutant of diff_expected: the comparison stops at the first field that differs.
diff_expected_FirstOnly(computed, expected) ==
    LET diffs == SelectSeq(ComparedFields,
                           LAMBDA key : key \notin DOMAIN expected \/ computed[key] # expected[key])
    IN IF diffs = <<>> THEN <<>> ELSE <<Mismatch(diffs[1])>>

\* diff_expected(computed, expected), lines 110-130: computed.get(key) is
\* never None, so a key the expected file lacks is a mismatch.
diff_expected(computed, expected) ==
    LET diffs == SelectSeq(ComparedFields,
                           LAMBDA key : key \notin DOMAIN expected \/ computed[key] # expected[key])
    IN [i \in 1..Len(diffs) |-> Mismatch(diffs[i])]

\* name.endswith(".expected.json")
is_expected_name(name) ==
    Len(name) >= 2 /\ name[Len(name) - 1] = ".expected" /\ name[Len(name)] = ".json"

\* Path.glob("*.json") matches the name: pathlib folds the case of names where
\* the file system does (os.name "nt"), and nowhere else.
glob_json(name) ==
    \/ name[Len(name)] = ".json"
    \/ rp.os_name = "nt" /\ name[Len(name)] = ".JSON"

\* discover_vectors(vectors_dir), lines 133-143: sorted(glob("*.json")) without
\* the names that end in ".expected.json".
discover_vectors(dir) ==
    SelectSeq(FileNameOrder,
              LAMBDA n : is_file(PathIn(dir, n)) /\ glob_json(n) /\ ~is_expected_name(n))

\* name.replace(".json", ".expected.json"): every ".json" of the name.
RECURSIVE expected_path_for_vector(_)
expected_path_for_vector(name) ==
    IF name = <<>> THEN <<>>
    ELSE (IF Head(name) = ".json" THEN <<".expected", ".json">> ELSE <<Head(name)>>)
         \o expected_path_for_vector(Tail(name))

\* The locals of run_replay.main() after the arguments are parsed, and os.name
\* of the machine.  `wrote`, `compared`, `finished` and `prev` are history,
\* read by no action: the paths written, the vectors compared with their
\* expected file, the vectors whose pass of the loop ended, and the invocation
\* before this one.
ReplayLocals(args, os_name, prev) ==
    [pc |-> "roots", args |-> args, os_name |-> os_name, vectors |-> <<>>, i |-> 1,
     failures |-> <<>>, printed |-> <<>>, status |-> PyNone, error |-> PyNone,
     wrote |-> {}, compared |-> {}, finished |-> <<>>, prev |-> prev, end_fs |-> <<>>]

\* Command lines: the four flag combinations on the two directories, the
\* expected directory of the golden commands as vectors directory, and one
\* with each directory missing.
ReplayArgs ==
    {[contract_root |-> ContractRoot, vectors_dir |-> VectorsDir,
      freeze |-> f, strict_missing |-> s] : f, s \in BOOLEAN}
    \cup {[contract_root |-> ContractRoot, vectors_dir |-> GoldenExpectedDir,
           freeze |-> f, strict_missing |-> FALSE] : f \in BOOLEAN}
    \cup {[contract_root |-> NoSuchRoot, vectors_dir |-> VectorsDir,
           freeze |-> TRUE, strict_missing |-> FALSE],
          [contract_root |-> ContractRoot, vectors_dir |-> NoSuchDir,
           freeze |-> TRUE, strict_missing |-> FALSE]}

\* The machines the checker is run on: os.name is "posix" for every command
\* line, and "nt" for the one that freezes.
ReplayRuns ==
    {<<args, "posix">> : args \in ReplayArgs}
    \cup {<<[contract_root |-> ContractRoot, vectors_dir |-> VectorsDir,
             freeze |-> TRUE, strict_missing |-> FALSE], "nt">>}

\* What the invocation that has returned leaves for the history of the next.
ReplayHistory ==
    IF rp.pc = "returned"
    THEN [done |-> TRUE, args |-> rp.args, status |-> rp.status, vectors |-> rp.vectors,
          wrote |-> rp.wrote, failures |-> rp.failures, fs |-> rp.end_fs]
    ELSE [done |-> FALSE]

\* `python run_replay.py --contract_root .. --vectors_dir .. [--freeze] [--strict_missing]`
InvokeReplay ==
    /\ mode = "idle"
    /\ inv < MaxInvocations
    /\ \E run \in ReplayRuns : rp' = ReplayLocals(run[1], run[2], ReplayHistory)
    /\ mode' = "replay"
    /\ inv' = inv + 1
    /\ UNCHANGED <<hvars, mig, lib, fs, out, env_seed, g, p, first_run>>

\* Lines 161-166: a directory that does not exist ends the command with 2.
R_CheckRoots ==
    /\ rp.pc = "roots"
    /\ rp' = IF ~dir_exists(rp.args.contract_root)
             THEN [rp EXCEPT !.pc = "exit", !.status = 2,
                             !.printed = Append(@, [error |-> "contract_root not found"])]
             ELSE IF ~dir_exists(rp.args.vectors_dir)
             THEN [rp EXCEPT !.pc = "exit", !.status = 2,
                             !.printed = Append(@, [error |-> "vectors_dir not found"])]
             ELSE [rp EXCEPT !.pc = "discover"]
    /\ UNCHANGED <<hvars, mig, gvars>>

\* Mutant of R_Discover: a directory without vectors is reported with the
\* status of failed vectors.
R_Discover_AsFailure ==
    /\ rp.pc = "discover"
    /\ LET vectors == discover_vectors(rp.args.vectors_dir)
       IN rp' = IF vectors = <<>>
                THEN [rp EXCEPT !.pc = "exit", !.status = 10,
                                !.printed = Append(@, [error |-> "No replay vectors found"])]
                ELSE [rp EXCEPT !.pc = "loop", !.vectors = vectors, !.i = 1]
    /\ UNCHANGED <<hvars, mig, gvars>>

\* Lines 168-171: no vector ends the command with 3.
R_Discover ==
    /\ rp.pc = "discover"
    /\ LET vectors == discover_vectors(rp.args.vectors_dir)
       IN rp' = IF vectors = <<>>
                THEN [rp EXCEPT !.pc = "exit", !.status = 3,
                                !.printed = Append(@, [error |-> "No replay vectors found"])]
                ELSE [rp EXCEPT !.pc = "loop", !.vectors = vectors, !.i = 1]
    /\ UNCHANGED <<hvars, mig, gvars>>

\* An exception leaves main(): the interpreter prints it and exits with 1.
Uncaught(error) == [rp EXCEPT !.pc = "exit", !.status = 1, !.error = error]

\* Mutant of record_failure: the loop is left at the first failure.
record_failure_Stop(locals, name, diffs) ==
    [locals EXCEPT !.failures = Append(@, [vector |-> name, diffs |-> diffs]),
                   !.i = Len(locals.vectors) + 1]

\* failures.append((vpath.name, diffs)), lines 181, 192 and 198.
record_failure(locals, name, diffs) ==
    [locals EXCEPT !.failures = Append(@, [vector |-> name, diffs |-> diffs])]

\* Mutant of branch: --strict_missing is not looked at.
branch_NoStrict(args, computed, has_expected) ==
    IF args.freeze THEN "freeze"
    ELSE IF ~has_expected THEN "expected file missing"
    ELSE "compare"

\* What the loop does with a vector, lines 180-195: the conditions in the
\* order the code tests them.
branch(args, computed, has_expected) ==
    IF args.strict_missing /\ computed.missing_artifacts # <<>> THEN "missing artifacts"
    ELSE IF args.freeze THEN "freeze"
    ELSE IF ~has_expected THEN "expected file missing"
    ELSE "compare"

\* One pass of the loop of lines 175-200, for the vector at rp.i: the locals
\* and the files after it.
loop_body ==
    LET dir == rp.args.vectors_dir
        name == rp.vectors[rp.i]
        bytes == fs[PathIn(dir, name)]
        next == [rp EXCEPT !.i = rp.i + 1, !.finished = Append(@, name)]
    IN IF bytes.enc # "json" THEN [rp |-> Uncaught("JSONDecodeError"), fs |-> fs]
       ELSE IF bytes.doc.t # "dict" THEN [rp |-> Uncaught("AttributeError"), fs |-> fs]
       ELSE IF ~include_paths_ok(bytes.doc.v) THEN [rp |-> Uncaught("ValueError"), fs |-> fs]
       ELSE
       LET computed == compute_outputs(dir, name, bytes.doc.v)
           exp_name == expected_path_for_vector(name)
           exp_path == PathIn(dir, exp_name)
           what == branch(rp.args, computed, is_file(exp_path))
       IN IF what = "missing artifacts"
          THEN [rp |-> record_failure(next, name,
                                      <<[missing_artifacts |-> computed.missing_artifacts]>>),
                fs |-> fs]
          ELSE IF what = "freeze"
          THEN [rp |-> [next EXCEPT !.wrote = @ \cup {exp_path},
                                    !.printed = Append(@, [freeze_ok |-> exp_name, vector |-> name])],
                fs |-> [q \in DOMAIN fs \cup {exp_path} |->
                          IF q = exp_path THEN stable_json_dumps(JsonDict(computed)) ELSE fs[q]]]
          ELSE IF what = "expected file missing"
          THEN [rp |-> record_failure(next, name, <<[expected_file_missing |-> exp_name]>>),
                fs |-> fs]
          ELSE IF fs[exp_path].enc # "json" THEN [rp |-> Uncaught("JSONDecodeError"), fs |-> fs]
          ELSE IF fs[exp_path].doc.t # "dict" THEN [rp |-> Uncaught("AttributeError"), fs |-> fs]
          ELSE LET diffs == diff_expected(computed, fs[exp_path].doc.v)
                   compared == [next EXCEPT !.compared = @ \cup {name}]
               IN IF diffs # <<>>
                  THEN [rp |-> record_failure(compared, name, diffs), fs |-> fs]
                  ELSE [rp |-> [compared EXCEPT !.printed =
                                  Append(@, [ok |-> name, matches |-> exp_name])],
                        fs |-> fs]

\* Lines 175-200, one vector.
R_Vector ==
    /\ rp.pc = "loop"
    /\ rp.i <= Len(rp.vectors)
    /\ rp' = loop_body.rp
    /\ fs' = loop_body.fs
    /\ UNCHANGED <<hvars, mig, lib, out, env_seed, mode, inv, g, p, first_run>>

\* Lines 202-212, after the last vector: the failures are printed together and
\* the status is 10, or the status is 0.
R_Report ==
    /\ rp.pc = "loop"
    /\ rp.i > Len(rp.vectors)
    /\ rp' = IF rp.failures # <<>>
             THEN [rp EXCEPT !.pc = "exit", !.status = 10,
                             !.printed = Append(@, [replay_equivalence_failed |-> rp.failures])]
             ELSE IF ~rp.args.freeze
             THEN [rp EXCEPT !.pc = "exit", !.status = 0,
                             !.printed = Append(@, [replay_equivalence_passed |-> TRUE])]
             ELSE [rp EXCEPT !.pc = "exit", !.status = 0]
    /\ UNCHANGED <<hvars, mig, gvars>>

\* run_replay.py exits with its status.
ReturnReplay ==
    /\ mode = "replay"
    /\ rp.pc = "exit"
    /\ rp' = [rp EXCEPT !.pc = "returned", !.end_fs = fs]
    /\ mode' = "idle"
    /\ UNCHANGED <<hvars, mig, lib, fs, out, env_seed, inv, g, p, first_run>>

\* The expected file of vector a.json, and what a hand edit may leave in it:
\* no schema_version, a key the checker does not know, two fields changed, all
\* four changed, bytes that are no JSON.
ExpectedOfA == PathIn(VectorsDir, <<"a", ".expected", ".json">>)
TamperedExpected(doc) ==
    {stable_json_dumps(JsonDict(WithoutKey(doc, "schema_version"))),
     stable_json_dumps(JsonDict(WithKey(doc, "note", "reviewed"))),
     stable_json_dumps(JsonDict([doc EXCEPT !.vector_id = "someone else",
                                            !.schema_version = "replay_equivalence_v0"])),
     stable_json_dumps(JsonDict([doc EXCEPT !.vector_id = "someone else",
                                            !.schema_version = "replay_equivalence_v0",
                                            !.missing_artifacts = Append(@, "ghost.json"),
                                            !.fingerprints = WithKey(@, "ghost.json",
                                                                     sha256_bytes(RawBytes("old bytes")))])),
     RawBytes("{ not json")}

\* Between two invocations one file is changed by hand: an artifact gets other
\* bytes or is deleted, or the expected file the checker has just frozen for
\* a.json is edited, or a.json itself gets one more key (artifacts, expected
\* files and vectors are inputs, lines 91-96, 195 and 176).
EditRepository ==
    /\ mode = "idle"
    /\ inv < MaxInvocations
    /\ rp.pc = "returned"
    /\ fs = rp.end_fs
    /\ \/ \E path \in {"lanes.yaml", "tools/tool_registry.yaml"} \cap DOMAIN fs :
             fs' = [fs EXCEPT ![path] = RawBytes("edited")]
       \/ /\ "lanes.yaml" \in DOMAIN fs
          /\ fs' = [q \in DOMAIN fs \ {"lanes.yaml"} |-> fs[q]]
       \/ /\ ExpectedOfA \in rp.wrote
          /\ \E bytes \in TamperedExpected(fs[ExpectedOfA].doc.v) :
                fs' = [fs EXCEPT ![ExpectedOfA] = bytes]
       \/ /\ ExpectedOfA \in rp.wrote
          /\ fs' = [fs EXCEPT ![PathIn(VectorsDir, <<"a", ".json">>)] =
                       canonical_json_bytes(JsonDict(WithKey(@.doc.v, "note", PyStr("edited"))))]
    /\ UNCHANGED <<hvars, ovars, lib, out, env_seed, mode, inv, g, p, first_run>>

ReplayNext ==
    \/ InvokeReplay
    \/ R_CheckRoots
    \/ R_Discover
    \/ R_Vector
    \/ R_Report
    \/ ReturnReplay
    \/ EditRepository

\* Vector files: no id and the default artifacts; an id and one artifact;
\* an empty id and artifacts of which some are missing, one named twice; a
\* vector whose artifact is the expected file of b.json; bytes that are no
\* JSON; a JSON list; include_paths that is a string.
VectorDefault == canonical_json_bytes(JsonDict(<<>>))
VectorLanes ==
    canonical_json_bytes(JsonDict([id |-> PyStr("vec-lanes"),
                                   include_paths |-> PyList(<<PyStr("lanes.yaml")>>)]))
VectorMissing ==
    canonical_json_bytes(JsonDict([id |-> PyStr(""),
                                   include_paths |-> PyList(<<PyStr("schemas/none.sql"),
                                                              PyStr("lanes.yaml"),
                                                              PyStr("acceptance/none.ps1"),
                                                              PyStr("schemas/none.sql")>>)]))
VectorOfExpected ==
    canonical_json_bytes(JsonDict([id |-> PyNull,
                                   include_paths |->
                                       PyList(<<PyStr("harness/replay_vectors/b.expected.json")>>)]))
VectorBadPaths == canonical_json_bytes(JsonDict([include_paths |-> PyStr("lanes.yaml")]))

\* An expected file left by an earlier version of the checker.
OldExpected ==
    stable_json_dumps(JsonDict([schema_version |-> "replay_equivalence_v0", vector_id |-> "a",
                                fingerprints |-> [k \in {"lanes.yaml"} |->
                                                    sha256_bytes(RawBytes("old bytes"))],
                                missing_artifacts |-> <<>>]))

\* The files `choice` names, each with its bytes.
FilesOf(choice) == [q \in {c[1] : c \in choice} |-> (CHOOSE c \in choice : c[1] = q)[2]]

\* The repository before the replay checker runs: the default artifacts but
\* the checklist, up to four vector files, expected files for some.
ReplayInit ==
    /\ HarnessIdle
    /\ out = <<>>
    /\ env_seed = Absent
    /\ mode = "idle"
    /\ inv = 0
    /\ g = GoldenOff
    /\ p = PinOff
    /\ first_run = [done |-> FALSE]
    /\ lib = LibOff
    /\ rp = ReplayOff
    /\ mig = MigrateOff
    /\ \E a \in {{}} \cup {{<<PathIn(VectorsDir, <<"a", ".json">>), bytes>>} :
                    bytes \in {VectorDefault, VectorLanes, VectorMissing, VectorOfExpected,
                               RawBytes("{ not json")}},
          b \in {{}} \cup {{<<PathIn(VectorsDir, <<"b", ".json">>), bytes>>} :
                    bytes \in {VectorLanes, VectorOfExpected, VectorBadPaths,
                               canonical_json_bytes(JsonList)}},
          more \in {{}, {<<PathIn(VectorsDir, <<"a", ".json", ".json">>), VectorLanes>>,
                         <<PathIn(VectorsDir, <<"c", ".JSON">>), VectorLanes>>,
                         <<PathIn(VectorsDir, <<"notes.txt">>), RawBytes("notes")>>}},
          a_expected \in {{}, {<<ExpectedOfA, OldExpected>>}},
          b_expected \in {{}, {<<PathIn(VectorsDir, <<"b", ".expected", ".json">>),
                                 RawBytes("{ not json")>>}} :
          fs = FilesOf({<<q, RawBytes("artifact bytes")>> :
                           q \in Range(default_artifact_paths) \ {"acceptance/build_integrity_checklist"}}
                       \cup a \cup b \cup more \cup a_expected \cup b_expected)

\* The replay checker: up to MaxInvocations invocations, one after another,
\* files edited by hand in between.
ReplaySpec == ReplayInit /\ [][ReplayNext]_vars


\* C25: under --freeze, every vector the loop has passed has had its expected
\* file written in this invocation, whatever the other flags and whether or not
\* artifacts are missing, and no vector was compared with its expected file.
\* Fails: lines 180-182 come before the freeze of line 186, so with
\* --strict_missing a vector with missing artifacts is recorded as a failure
\* and its expected file is not written.
C25_FreezeWritesEvery ==
    (rp.pc # "off" /\ rp.args.freeze) =>
        /\ rp.compared = {}
        /\ \A j \in 1..Len(rp.finished) :
              PathIn(rp.args.vectors_dir, expected_path_for_vector(rp.finished[j])) \in rp.wrote


\* The invocation before this one froze, this one does not, both on the same
\* directories.
FreezeThenVerify ==
    /\ mode = "replay"
    /\ rp.prev.done
    /\ rp.prev.args.freeze
    /\ ~rp.args.freeze
    /\ rp.prev.args.contract_root = rp.args.contract_root
    /\ rp.prev.args.vectors_dir = rp.args.vectors_dir

\* The files that differ between the end of the freezing invocation and now.
ChangedSince == {q \in DOMAIN fs \cup DOMAIN rp.prev.fs :
                    q \notin DOMAIN fs \/ q \notin DOMAIN rp.prev.fs \/ fs[q] # rp.prev.fs[q]}

\* The failures this invocation has recorded for the vector `name`.
FailuresOf(name) == SelectSeq(rp.failures, LAMBDA f : f.vector = name)

\* The artifact paths of the vector file `name`.
VectorArtifacts(name) == Range(vector_artifact_paths(fs[PathIn(rp.args.vectors_dir, name)].doc.v))

CycleApplies(name) ==
    /\ expected_path_for_vector(name) # name
    /\ PathIn(rp.args.vectors_dir, expected_path_for_vector(name)) \in rp.prev.wrote
    /\ VectorArtifacts(name) \cap rp.prev.wrote = {}
    /\ ~(rp.args.strict_missing /\ VectorArtifacts(name) \ DOMAIN fs # {})

C26_WitnessUnchanged ==
    /\ FreezeThenVerify
    /\ rp.pc = "exit"
    /\ ChangedSince = {}
    /\ rp.status = 0
    /\ \E j \in 1..Len(rp.finished) : CycleApplies(rp.finished[j])


\* run_replay.main() has ended without an exception.
ReplayEnded == rp.pc \in {"exit", "returned"} /\ rp.error = PyNone

\* C27: without --freeze, an invocation that found vectors and ended without
\* an exception has passed every vector, whatever failed before; every vector
\* not reported OK has its one entry in `failures`, in vector order; and the
\* status is 10 exactly when there is a failure, the last thing printed being
\* the report of all of them.
C27_AllVectorsEvaluated ==
    (rp.pc # "off" /\ ~rp.args.freeze) =>
        /\ \A j \in 1..Len(rp.finished) :
              Len(FailuresOf(rp.finished[j])) =
                 IF \E line \in Range(rp.printed) : line = [ok |-> rp.finished[j],
                        matches |-> expected_path_for_vector(rp.finished[j])]
                 THEN 0 ELSE 1
        /\ [j \in 1..Len(rp.failures) |-> rp.failures[j].vector]
              = SelectSeq(rp.finished, LAMBDA n : FailuresOf(n) # <<>>)
        /\ (ReplayEnded /\ rp.vectors # <<>>) =>
              /\ rp.finished = rp.vectors
              /\ rp.status = IF rp.failures = <<>> THEN 0 ELSE 10
              /\ rp.failures # <<>> =>
                    rp.printed[Len(rp.printed)] = [replay_equivalence_failed |-> rp.failures]

\* Three vectors, three failures reported together: the first vector failed
\* at its missing artifacts, the two after it for want of an expected file.
C27_Witness ==
    /\ rp.pc = "returned"
    /\ ~rp.args.freeze
    /\ rp.error = PyNone
    /\ rp.status = 10
    /\ Len(rp.vectors) = 3
    /\ Len(rp.failures) = 3
    /\ rp.failures[1].vector = rp.vectors[1]
    /\ \E q \in DOMAIN rp.failures[1].diffs[1] : q = "missing_artifacts"
    /\ \A j \in 2..3 : \E q \in DOMAIN rp.failures[j].diffs[1] : q = "expected_file_missing"

\* A field mismatch on the first vector, and the vector after it passed.
C27_WitnessMismatch ==
    /\ rp.pc = "returned"
    /\ ~rp.args.freeze
    /\ rp.error = PyNone
    /\ Len(rp.vectors) >= 2
    /\ Len(rp.failures) = 1
    /\ rp.failures[1].vector = rp.vectors[1]
    /\ \E q \in DOMAIN rp.failures[1].diffs[1] : q = "mismatch_at"
    /\ rp.vectors[2] \in rp.compared


\* The fields of the four in which the fingerprint document of the vector
\* `name`, computed from the files as they are, differs from the document
\* `expected`.
DifferingFields(name, expected) ==
    LET vector == fs[PathIn(rp.args.vectors_dir, name)].doc.v
        computed == compute_outputs(rp.args.vectors_dir, name, vector)
    IN {key \in {"schema_version", "vector_id", "missing_artifacts", "fingerprints"} :
           key \notin DOMAIN expected \/ computed[key] # expected[key]}

\* The vector `name` goes as far as the branch on the expected file: no
\* --freeze, and --strict_missing does not stop it.
ReachesExpected(name) ==
    /\ ~rp.args.freeze
    /\ ~(rp.args.strict_missing /\ VectorArtifacts(name) \ DOMAIN fs # {})

\* C28: without --freeze, a vector that gets as far as its expected file
\* passes exactly when the file exists and none of schema_version, vector_id,
\* missing_artifacts and fingerprints differs; without the file it fails as
\* "expected file missing"; otherwise its diffs name exactly the fields that differ.
C28_ExactComparison ==
    mode = "replay" =>
        \A j \in 1..Len(rp.finished) :
            LET name == rp.finished[j]
                exp_name == expected_path_for_vector(name)
                exp_path == PathIn(rp.args.vectors_dir, exp_name)
                failed == FailuresOf(name)
            IN ReachesExpected(name) =>
                  IF exp_path \notin DOMAIN fs
                  THEN /\ failed = <<[vector |-> name,
                                      diffs |-> <<[expected_file_missing |-> exp_name]>>]>>
                       /\ name \notin rp.compared
                  ELSE LET differ == DifferingFields(name, fs[exp_path].doc.v)
                       IN /\ name \in rp.compared
                          /\ (failed = <<>>) <=> (differ = {})
                          /\ failed # <<>> =>
                                /\ Len(failed) = 1
                                /\ Len(failed[1].diffs) = Cardinality(differ)
                                /\ {failed[1].diffs[d].mismatch_at : d \in DOMAIN failed[1].diffs}
                                      = differ

\* A compared vector failed on two of the four fields and on no other.
C28_Witness ==
    /\ rp.pc = "exit"
    /\ \E j \in 1..Len(rp.finished) :
          /\ ReachesExpected(rp.finished[j])
          /\ rp.finished[j] \in rp.compared
          /\ FailuresOf(rp.finished[j]) # <<>>
          /\ FailuresOf(rp.finished[j])[1].diffs
                = <<Mismatch("schema_version"), Mismatch("vector_id")>>

\* A compared vector whose expected file has a key more than the four passed.
C28_WitnessExtraKey ==
    /\ rp.pc = "exit"
    /\ <<"a", ".json">> \in rp.compared
    /\ ReachesExpected(<<"a", ".json">>)
    /\ FailuresOf(<<"a", ".json">>) = <<>>
    /\ ExpectedOfA \in DOMAIN fs
    /\ "note" \in DOMAIN fs[ExpectedOfA].doc.v


\* The place of a string in the order of sorted().
PlaceOf(s) == CHOOSE i \in 1..Len(StringOrder) : StringOrder[i] = s

\* `list` is in the order of sorted().
Ascending(list) == \A i, j \in 1..Len(list) : i < j => PlaceOf(list[i]) <= PlaceOf(list[j])

\* `list` holds the artifact paths of the vector `name` that are no file, each
\* as often as the vector names it.
ListsTheMissing(list, name) ==
    LET paths == vector_artifact_paths(fs[PathIn(rp.args.vectors_dir, name)].doc.v)
    IN \A q \in Range(paths) \cup Range(list) :
          Len(SelectSeq(list, LAMBDA x : x = q))
             = IF q \in DOMAIN fs THEN 0 ELSE Len(SelectSeq(paths, LAMBDA x : x = q))

\* C29: without --strict_missing no vector fails at its missing artifacts:
\* they are listed, sorted, in the document that is frozen (looked at where
\* the freeze has left the vector file as it was) or compared; with
\* --strict_missing every vector with a missing artifact has its one failure,
\* which lists the missing paths sorted, and is not compared with its expected file.
C29_MissingArtifacts ==
    mode = "replay" =>
        \A j \in 1..Len(rp.finished) :
            LET name == rp.finished[j]
                exp_path == PathIn(rp.args.vectors_dir, expected_path_for_vector(name))
                failed == FailuresOf(name)
                missing == VectorArtifacts(name) \ DOMAIN fs
            IN /\ ~rp.args.strict_missing =>
                    /\ \A f \in Range(failed) : "missing_artifacts" \notin DOMAIN f.diffs[1]
                    /\ (rp.args.freeze /\ exp_path # PathIn(rp.args.vectors_dir, name)) =>
                          /\ exp_path \in rp.wrote
                          /\ Ascending(fs[exp_path].doc.v.missing_artifacts)
                          /\ Range(fs[exp_path].doc.v.missing_artifacts) \subseteq VectorArtifacts(name)
                          /\ missing \subseteq Range(fs[exp_path].doc.v.missing_artifacts)
                    /\ ~rp.args.freeze =>
                          (failed = <<>>) <=>
                             /\ exp_path \in DOMAIN fs
                             /\ DifferingFields(name, fs[exp_path].doc.v) = {}
               /\ (rp.args.strict_missing /\ missing # {}) =>
                    /\ Len(failed) = 1
                    /\ DOMAIN failed[1].diffs[1] = {"missing_artifacts"}
                    /\ Ascending(failed[1].diffs[1].missing_artifacts)
                    /\ ~rp.args.freeze => ListsTheMissing(failed[1].diffs[1].missing_artifacts, name)
                    /\ name \notin rp.compared
               /\ (rp.args.strict_missing /\ ~rp.args.freeze /\ missing = {}) =>
                    \A f \in Range(failed) : "missing_artifacts" \notin DOMAIN f.diffs[1]

\* With --strict_missing a vector failed at three missing paths, one of them
\* named twice; its expected file exists and was not read.
C29_Witness ==
    /\ rp.pc = "exit"
    /\ rp.args.strict_missing
    /\ ~rp.args.freeze
    /\ ExpectedOfA \in DOMAIN fs
    /\ FailuresOf(<<"a", ".json">>) =
          <<[vector |-> <<"a", ".json">>,
             diffs |-> <<[missing_artifacts |->
                            <<"acceptance/none.ps1", "schemas/none.sql", "schemas/none.sql">>]>>]>>

\* Without --strict_missing a vector with missing artifacts passed.
C29_WitnessLenient ==
    /\ rp.pc = "exit"
    /\ ~rp.args.strict_missing
    /\ ~rp.args.freeze
    /\ <<"a", ".json">> \in rp.compared
    /\ FailuresOf(<<"a", ".json">>) = <<>>
    /\ fs[ExpectedOfA].doc.v.missing_artifacts # <<>>


\* The names in the vectors directory that end in ".expected.json".
ExpectedNames == {n \in FileNames : is_expected_name(n)}

\* C30: a step of the replay checker changes no file, unless it runs under
\* --freeze: then the one file it creates or overwrites is the expected file
\* paired to the vector at hand, whose name ends in ".expected.json" and is
\* not the name of a vector; no vector file is ever changed or removed, and no
\* name ending in ".expected.json" is among the discovered vectors.
\* Fails: where Path.glob folds case ("nt") a file c.JSON is a vector, and
\* name.replace(".json", ".expected.json") leaves its name as it is, so the
\* freeze writes the fingerprint document over the vector file.
C30_WritesOnlyExpected ==
    [][mode = "replay" =>
          /\ Range(rp'.vectors) \cap ExpectedNames = {}
          /\ \A n \in Range(rp.vectors) :
                /\ PathIn(rp.args.vectors_dir, n) \in DOMAIN fs'
                /\ fs'[PathIn(rp.args.vectors_dir, n)] = fs[PathIn(rp.args.vectors_dir, n)]
          /\ DOMAIN fs \subseteq DOMAIN fs'
          /\ fs' # fs =>
                /\ rp.args.freeze
                /\ rp.pc = "loop"
                /\ \E n \in ExpectedNames :
                      /\ n = expected_path_for_vector(rp.vectors[rp.i])
                      /\ \A q \in DOMAIN fs' :
                            (q \notin DOMAIN fs \/ fs'[q] # fs[q])
                               => q = PathIn(rp.args.vectors_dir, n)]_vars

\* What holds of the code: the same, for the vectors whose name holds ".json"
\* in lower case.
C30_WritesOnlyExpectedLowerCase ==
    [][mode = "replay" =>
          /\ Range(rp'.vectors) \cap ExpectedNames = {}
          /\ \A n \in Range(rp.vectors) :
                expected_path_for_vector(n) # n =>
                   /\ PathIn(rp.args.vectors_dir, n) \in DOMAIN fs'
                   /\ fs'[PathIn(rp.args.vectors_dir, n)] = fs[PathIn(rp.args.vectors_dir, n)]
          /\ DOMAIN fs \subseteq DOMAIN fs'
          /\ fs' # fs =>
                /\ rp.args.freeze
                /\ rp.pc = "loop"
                /\ \A q \in DOMAIN fs' :
                      (q \notin DOMAIN fs \/ fs'[q] # fs[q])
                         => q = PathIn(rp.args.vectors_dir,
                                       expected_path_for_vector(rp.vectors[rp.i]))]_vars

\* A freezing invocation where names are matched in any case has written the
\* fingerprint document over the vector file c.JSON.
C30_VectorOverwritten ==
    /\ rp.pc = "exit"
    /\ rp.args.freeze
    /\ PathIn(VectorsDir, <<"c", ".JSON">>) \in rp.wrote
    /\ <<"c", ".JSON">> \in Range(rp.vectors)
    /\ fs[PathIn(VectorsDir, <<"c", ".JSON">>)] # VectorLanes

\* A freezing invocation on a directory that holds a.json, a.json.json and
\* expected files has overwritten the expected file of a.json and created the
\* one of a.json.json, whose name has ".json" replaced twice.
C30_FreezeWrote ==
    /\ rp.pc = "exit"
    /\ rp.args.freeze
    /\ rp.prev.done
    /\ ExpectedOfA \in rp.wrote \cap DOMAIN rp.prev.fs
    /\ PathIn(VectorsDir, <<"a", ".expected", ".json", ".expected", ".json">>) \in rp.wrote
    /\ <<"a", ".expected", ".json">> \notin Range(rp.vectors)


\* The vector file `name` is not what it was when the invocation before this
\* one froze its expected file, and the expected file is as the freeze left it.
VectorEditedSinceFreeze(name) ==
    LET vpath == PathIn(rp.args.vectors_dir, name)
        exp_path == PathIn(rp.args.vectors_dir, expected_path_for_vector(name))
    IN /\ FreezeThenVerify
       /\ exp_path # vpath
       /\ exp_path \in rp.prev.wrote
       /\ exp_path \in DOMAIN fs
       /\ fs[exp_path] = rp.prev.fs[exp_path]
       /\ fs[vpath] # rp.prev.fs[vpath]

\* C31: the document frozen for a vector holds, under the vector's own path,
\* the SHA-256 of the vector file; and a vector whose bytes were changed after
\* its expected file was frozen does not pass the next check without --freeze:
\* it has its failure, and where it was compared with the expected file the
\* diffs name `fingerprints`.
C31_VectorFingerprinted ==
    mode = "replay" =>
        \A j \in 1..Len(rp.finished) :
            LET name == rp.finished[j]
                dir == rp.args.vectors_dir
                exp_path == PathIn(dir, expected_path_for_vector(name))
            IN /\ (rp.args.freeze /\ exp_path \in rp.wrote /\ exp_path # PathIn(dir, name)) =>
                     /\ vector_key(dir, name) \in DOMAIN fs[exp_path].doc.v.fingerprints
                     /\ fs[exp_path].doc.v.fingerprints[vector_key(dir, name)]
                           = sha256_bytes(fs[PathIn(dir, name)])
               /\ VectorEditedSinceFreeze(name) =>
                     /\ Len(FailuresOf(name)) = 1
                     /\ name \in rp.compared =>
                           Mismatch("fingerprints") \in Range(FailuresOf(name)[1].diffs)

\* a.json got one more key after its expected file was frozen, was compared
\* with it in the next invocation, and failed on `fingerprints` alone.
C31_Witness ==
    /\ mode = "replay"
    /\ rp.pc = "exit"
    /\ <<"a", ".json">> \in rp.compared
    /\ VectorEditedSinceFreeze(<<"a", ".json">>)
    /\ FailuresOf(<<"a", ".json">>) =
          <<[vector |-> <<"a", ".json">>, diffs |-> <<Mismatch("fingerprints")>>]>>

\* The exit status the command line of run_replay.py promises, from what the
\* invocation met: 2 without one of the two directories, 3 without a vector,
\* 10 with a failed vector, 0 otherwise.
PromisedStatus ==
    IF ~dir_exists(rp.args.contract_root) \/ ~dir_exists(rp.args.vectors_dir) THEN 2
    ELSE IF rp.vectors = <<>> THEN 3
    ELSE IF \E j \in 1..Len(rp.finished) : FailuresOf(rp.finished[j]) # <<>> THEN 10
    ELSE 0

\* C32: an invocation of the replay checker that ended without an exception
\* returns 0 exactly when it found at least one vector and none of them failed,
\* 3 when it found none, 10 when one or more failed, and 2 when the contract
\* root or the vectors directory is missing, in which case no vector was
\* discovered, read, compared or frozen; with status 0 or 10 every discovered
\* vector was worked on; an exception never ends with one of these four codes.
C32_ExitStatus ==
    rp.pc \in {"exit", "returned"} =>
        /\ rp.error # PyNone => rp.status = 1
        /\ rp.error = PyNone =>
              /\ rp.status = PromisedStatus
              /\ rp.status = 0 <=> (rp.vectors # <<>> /\ rp.failures = <<>>)
              /\ rp.status \in {2, 3} =>
                    /\ rp.vectors = <<>> /\ rp.finished = <<>> /\ rp.failures = <<>>
                    /\ rp.compared = {} /\ rp.wrote = {}
              /\ rp.status \in {0, 10} => rp.finished = rp.vectors /\ rp.vectors # <<>>
              /\ rp.status = 0 /\ ~rp.args.freeze => rp.compared = Range(rp.vectors)

\* A verification that found vectors and passed all of them returned 0.
C32_Witness ==
    /\ mode = "replay" /\ rp.pc = "exit" /\ rp.error = PyNone
    /\ ~rp.args.freeze /\ Len(rp.vectors) >= 2 /\ rp.status = 0

\* The three other codes: no directory, no vector, a failed vector.
C32_WitnessNoRoot == rp.pc = "exit" /\ rp.error = PyNone /\ rp.status = 2
C32_WitnessNoVectors == rp.pc = "exit" /\ rp.error = PyNone /\ rp.status = 3
C32_WitnessFailed == rp.pc = "exit" /\ rp.error = PyNone /\ rp.status = 10 /\ rp.args.freeze

(* ---------------------------------------------------------------------- *)
(* Part V: migrate_gate8_to_python.py, and every command on one repository *)
(* ---------------------------------------------------------------------- *)

\* EMPTY_MANIFEST_JSON, "{\n}\n": an empty JSON object on two lines.
EMPTY_MANIFEST_JSON == [enc |-> "json", style |-> "brace, newline, brace", doc |-> JsonDict(<<>>)]

\* Command lines of the migration: every combination of --apply,
\* --purge-archive and --overwrite-python, --archive-dir left at its default.
MigrateArgs == [apply : BOOLEAN, purge_archive : BOOLEAN, overwrite_python : BOOLEAN]

\* What the file system holds at the path of a directory.
Directory == [enc |-> "dir"]

\* Lines 431-437: the golden directory, its four subdirectories and the
\* archive, in the order main() makes them.
GoldenDir == "contract/v1/golden"
LibDir == "contract/v1/golden/lib"
GoldenFixturesDir == "contract/v1/golden/fixtures"
ExpectedDir == "contract/v1/golden/expected"
GoldenOutDir == "contract/v1/golden/out"
ArchiveRoot == "contract/v1/golden/_legacy_archive"
MigrateDirs == <<GoldenDir, LibDir, GoldenFixturesDir, ExpectedDir, GoldenOutDir, ArchiveRoot>>

\* Lines 450-453: the four Python files and the text written to each.
PythonFiles ==
    <<[path |-> "contract/v1/golden/lib/__init__.py", content |-> RawBytes("INIT_PY")],
      [path |-> "contract/v1/golden/lib/canonical.py", content |-> RawBytes("CANONICAL_PY")],
      [path |-> "contract/v1/golden/run_golden.py", content |-> RawBytes("RUN_GOLDEN_PY")],
      [path |-> "contract/v1/golden/pin_golden_hashes.py", content |-> RawBytes("PIN_GOLDEN_PY")]>>

\* Lines 460-467: the legacy files, by directory and name.
LegacyPaths ==
    <<[dir |-> GoldenDir, name |-> "run_golden.ps1"],
      [dir |-> GoldenDir, name |-> "pin_golden_hashes.ps1"],
      [dir |-> LibDir, name |-> "golden_common.ps1"],
      [dir |-> GoldenFixturesDir, name |-> "fixtures_manifest.yaml"],
      [dir |-> ExpectedDir, name |-> "golden_expected_manifest.yaml"],
      [dir |-> ExpectedDir, name |-> "golden_expected_manifest.yml"]>>

\* dir / name
Join(dir, name) == dir \o "/" \o name

\* The path q lies under the directory dir.
IsUnder(q, dir) == Len(q) > Len(dir) /\ SubSeq(q, 1, Len(dir) + 1) = dir \o "/"

\* The locals of migrate_gate8_to_python.main() at line 431; history: the
\* files when the command began.
MigrateLocals(args, files) ==
    [pc |-> "ensure_dirs", args |-> args, actions |-> <<>>, start_fs |-> files]

\* The files after one more path is put, or replaced.
Put(files, path, content) ==
    [q \in DOMAIN files \cup {path} |-> IF q = path THEN content ELSE files[q]]

\* ensure_dir(path, apply, actions), lines 17-22, on the files `files`: the
\* actions it appends and the files after it. When main() calls it under
\* --apply the parent exists: the golden directory is made first.
ensure_dir(files, path, apply) ==
    IF path \in DOMAIN files THEN [actions |-> <<>>, fs |-> files]
    ELSE [actions |-> <<[mkdir |-> path]>>,
          fs |-> IF apply THEN Put(files, path, Directory) ELSE files]

\* Mutant of write_file: the file is written whether or not it exists.
write_file_Always(files, path, content, apply, overwrite) ==
    [actions |-> <<[write |-> path, overwrites |-> path \in DOMAIN files]>>,
     fs |-> IF apply THEN Put(files, path, content) ELSE files]

\* write_file(path, content, apply, actions, overwrite), lines 25-32.
write_file(files, path, content, apply, overwrite) ==
    IF path \in DOMAIN files /\ ~overwrite
    THEN [actions |-> <<[skip |-> path]>>, fs |-> files]
    ELSE [actions |-> <<[write |-> path, overwrites |-> path \in DOMAIN files]>>,
          fs |-> IF apply THEN Put(files, path, content) ELSE files]

\* move_to_archive(src, archive_root, apply, actions), lines 35-44: the file
\* goes to archive_root / its path in the repository, whose directory is
\* made; a file already there is replaced (os.rename on POSIX).
move_to_archive(files, src, archive_root, apply) ==
    LET path == Join(src.dir, src.name)
        dst_dir == Join(archive_root, src.dir)
        dst == Join(dst_dir, src.name)
    IN IF path \notin DOMAIN files
       THEN [actions |-> <<[skip_missing |-> path]>>, fs |-> files]
       ELSE [actions |-> <<[move |-> path, to |-> dst]>>,
             fs |-> IF apply
                    THEN [q \in (DOMAIN files \ {path}) \cup {archive_root, dst_dir, dst} |->
                            IF q = dst THEN files[path]
                            ELSE IF q \in DOMAIN files THEN files[q] ELSE Directory]
                    ELSE files]

\* Mutant of remove_path: the path is deleted in a dry run too.
remove_path_Unguarded(files, path, apply) ==
    IF path \notin DOMAIN files THEN [actions |-> <<[skip_missing |-> path]>>, fs |-> files]
    ELSE [actions |-> <<[delete |-> path]>>,
          fs |-> [q \in {r \in DOMAIN files :
                            r # path /\ ~(files[path] = Directory /\ IsUnder(r, path))} |->
                    files[q]]]

\* remove_path(path, apply, actions), lines 47-56: shutil.rmtree of a
\* directory, with all that lies under it, or unlink of a file.
remove_path(files, path, apply) ==
    IF path \notin DOMAIN files THEN [actions |-> <<[skip_missing |-> path]>>, fs |-> files]
    ELSE [actions |-> <<[delete |-> path]>>,
          fs |-> IF apply
                 THEN [q \in {r \in DOMAIN files :
                                 r # path /\ ~(files[path] = Directory /\ IsUnder(r, path))} |->
                         files[q]]
                 ELSE files]

\* Lines 432-437: ensure_dir on each directory in turn.
RECURSIVE ensure_dirs(_, _, _)
ensure_dirs(files, dirs, apply) ==
    IF dirs = <<>> THEN [actions |-> <<>>, fs |-> files]
    ELSE LET before == ensure_dirs(files, SubSeq(dirs, 1, Len(dirs) - 1), apply)
             last == ensure_dir(before.fs, dirs[Len(dirs)], apply)
         IN [actions |-> before.actions \o last.actions, fs |-> last.fs]

\* Lines 450-453: write_file on each Python file in turn.
RECURSIVE write_python_files(_, _, _, _)
write_python_files(files, list, apply, overwrite_py) ==
    IF list = <<>> THEN [actions |-> <<>>, fs |-> files]
    ELSE LET before == write_python_files(files, SubSeq(list, 1, Len(list) - 1), apply, overwrite_py)
             file == list[Len(list)]
             last == write_file(before.fs, file.path, file.content, apply, overwrite_py)
         IN [actions |-> before.actions \o last.actions, fs |-> last.fs]

\* Lines 469-470: move_to_archive on each legacy path in turn.
RECURSIVE move_legacy(_, _, _, _)
move_legacy(files, legacy_paths, archive_root, apply) ==
    IF legacy_paths = <<>> THEN [actions |-> <<>>, fs |-> files]
    ELSE LET before == move_legacy(files, SubSeq(legacy_paths, 1, Len(legacy_paths) - 1),
                                   archive_root, apply)
             last == move_to_archive(before.fs, legacy_paths[Len(legacy_paths)], archive_root, apply)
         IN [actions |-> before.actions \o last.actions, fs |-> last.fs]

\* `python migrate_gate8_to_python.py [--apply] [--purge-archive] [--overwrite-python]`
InvokeMigrate ==
    /\ mode = "idle"
    /\ inv < MaxInvocations
    /\ \E args \in MigrateArgs : mig' = MigrateLocals(args, fs)
    /\ mode' = "migrate"
    /\ inv' = inv + 1
    /\ UNCHANGED <<hvars, rp, lib, fs, out, env_seed, g, p, first_run>>

\* Lines 431-437: the six directories.
M_EnsureDirs ==
    /\ mode = "migrate"
    /\ mig.pc = "ensure_dirs"
    /\ LET done == ensure_dirs(fs, MigrateDirs, mig.args.apply)
       IN /\ fs' = done.fs
          /\ mig' = [mig EXCEPT !.pc = "python_files", !.actions = @ \o done.actions]
    /\ UNCHANGED <<hvars, rp, lib, out, env_seed, mode, inv, g, p, first_run>>

\* Lines 450-453: the four Python files, overwrite=overwrite_py.
M_WritePython ==
    /\ mode = "migrate"
    /\ mig.pc = "python_files"
    /\ LET done == write_python_files(fs, PythonFiles, mig.args.apply, mig.args.overwrite_python)
       IN /\ fs' = done.fs
          /\ mig' = [mig EXCEPT !.pc = "fixtures_manifest", !.actions = @ \o done.actions]
    /\ UNCHANGED <<hvars, rp, lib, out, env_seed, mode, inv, g, p, first_run>>

\* Line 456: fixtures_manifest.json, overwrite=False.
M_FixturesManifest ==
    /\ mode = "migrate"
    /\ mig.pc = "fixtures_manifest"
    /\ LET done == write_file(fs, FixturesManifestPath, EMPTY_MANIFEST_JSON, mig.args.apply, FALSE)
       IN /\ fs' = done.fs
          /\ mig' = [mig EXCEPT !.pc = "expected_manifest", !.actions = @ \o done.actions]
    /\ UNCHANGED <<hvars, rp, lib, out, env_seed, mode, inv, g, p, first_run>>

\* Line 457: golden_expected_manifest.json, overwrite=False.
M_ExpectedManifest ==
    /\ mode = "migrate"
    /\ mig.pc = "expected_manifest"
    /\ LET done == write_file(fs, ExpectedManifestPath, EMPTY_MANIFEST_JSON, mig.args.apply, FALSE)
       IN /\ fs' = done.fs
          /\ mig' = [mig EXCEPT !.pc = "legacy", !.actions = @ \o done.actions]
    /\ UNCHANGED <<hvars, rp, lib, out, env_seed, mode, inv, g, p, first_run>>

\* Lines 469-470: the six legacy files.
M_MoveLegacy ==
    /\ mode = "migrate"
    /\ mig.pc = "legacy"
    /\ LET done == move_legacy(fs, LegacyPaths, ArchiveRoot, mig.args.apply)
       IN /\ fs' = done.fs
          /\ mig' = [mig EXCEPT !.pc = "purge", !.actions = @ \o done.actions]
    /\ UNCHANGED <<hvars, rp, lib, out, env_seed, mode, inv, g, p, first_run>>

\* Lines 473-474: with --purge-archive the archive is removed.
M_Purge ==
    /\ mode = "migrate"
    /\ mig.pc = "purge"
    /\ LET done == IF mig.args.purge_archive THEN remove_path(fs, ArchiveRoot, mig.args.apply)
                   ELSE [actions |-> <<>>, fs |-> fs]
       IN /\ fs' = done.fs
          /\ mig' = [mig EXCEPT !.pc = "exit", !.actions = @ \o done.actions]
    /\ UNCHANGED <<hvars, rp, lib, out, env_seed, mode, inv, g, p, first_run>>

\* Lines 476-492: the plan is printed, main() returns 0.
ReturnMigrate ==
    /\ mode = "migrate"
    /\ mig.pc = "exit"
    /\ mig' = [mig EXCEPT !.pc = "returned"]
    /\ mode' = "idle"
    /\ UNCHANGED <<hvars, rp, lib, fs, out, env_seed, inv, g, p, first_run>>

\* The migration alone, up to MaxInvocations of it.
MigrateNext ==
    \/ InvokeMigrate
    \/ M_EnsureDirs
    \/ M_WritePython
    \/ M_FixturesManifest
    \/ M_ExpectedManifest
    \/ M_MoveLegacy
    \/ M_Purge
    \/ ReturnMigrate

\* The files of the golden directory as the migration may find them: a set of
\* paths, each directory or file with its content.
Tree(dirs, files) ==
    [q \in dirs \cup DOMAIN files |-> IF q \in dirs THEN Directory ELSE files[q]]

LegacyFile(i) == Join(LegacyPaths[i].dir, LegacyPaths[i].name)

\* No golden directory; the legacy harness; a half-migrated directory with
\* older Python files, one manifest and two legacy files; a migrated directory
\* with an archive; a migrated directory whose archive holds an older copy of
\* a legacy file that has come back.
MigrateLayouts ==
    {<<>>,
     Tree({GoldenDir, LibDir, GoldenFixturesDir, ExpectedDir},
          [q \in {LegacyFile(i) : i \in 1..Len(LegacyPaths)} |-> RawBytes("legacy")]),
     Tree({GoldenDir, LibDir, GoldenFixturesDir, ExpectedDir, GoldenOutDir},
          [q \in {PythonFiles[i].path : i \in 1..Len(PythonFiles)}
                  \cup {FixturesManifestPath, LegacyFile(1), LegacyFile(5)} |->
             IF q = FixturesManifestPath THEN manifest_json_bytes(<<>>)
             ELSE IF q \in {LegacyFile(1), LegacyFile(5)} THEN RawBytes("legacy")
             ELSE RawBytes("older python")]),
     Tree(Range(MigrateDirs) \cup {Join(ArchiveRoot, GoldenDir)},
          [q \in {PythonFiles[i].path : i \in 1..Len(PythonFiles)}
                  \cup {FixturesManifestPath, ExpectedManifestPath,
                        Join(Join(ArchiveRoot, GoldenDir), "run_golden.ps1")} |->
             IF q \in {FixturesManifestPath, ExpectedManifestPath} THEN EMPTY_MANIFEST_JSON
             ELSE IF IsUnder(q, ArchiveRoot) THEN RawBytes("legacy")
             ELSE (CHOOSE f \in Range(PythonFiles) : f.path = q).content]),
     Tree(Range(MigrateDirs) \cup {Join(ArchiveRoot, GoldenDir)},
          [q \in {LegacyFile(1), Join(Join(ArchiveRoot, GoldenDir), "run_golden.ps1")} |->
             IF IsUnder(q, ArchiveRoot) THEN RawBytes("legacy") ELSE RawBytes("legacy, edited")])}

MigrateInit ==
    /\ HarnessIdle
    /\ fs \in MigrateLayouts
    /\ out = <<>>
    /\ env_seed = Absent
    /\ mode = "idle"
    /\ inv = 0
    /\ g = GoldenOff
    /\ p = PinOff
    /\ first_run = [done |-> FALSE]
    /\ lib = LibOff
    /\ rp = ReplayOff
    /\ mig = MigrateOff

\* migrate_gate8_to_python.py on the golden directory.
MigrateSpec == MigrateInit /\ [][MigrateNext]_vars

\* run_harness.py has written its two files and exits.
ReturnHarness ==
    /\ mode = "harness"
    /\ pc = "done"
    /\ mode' = "idle"
    /\ pc' = "off"
    /\ UNCHANGED <<request, roles, lanes_allowed, lane_tools, tool_registry, run_record, events,
                   lane_ok, lane_reason, allowed, deny_reason, out_files, h,
                   ovars, lib, fs, out, env_seed, inv, g, p, first_run>>

\* Every command of the repository, one after another on the same files: the
\* harness first, then up to MaxInvocations of run, pin, replay and migration,
\* the expected manifest and a fixture possibly edited by hand in between.
RepoNext ==
    \/ HarnessNext
    \/ ReturnHarness
    \/ EditFixture
    \/ EditExpected
    \/ InvokeRun
    \/ G_HashInputs
    \/ G_CleanOutDir
    \/ G_ValidateFixtures
    \/ G_LoadFixtures
    \/ G_WriteArtifacts
    \/ G_WriteHashes
    \/ G_WriteReport
    \/ G_Compare
    \/ ReturnRun
    \/ InvokePin
    \/ P_PinFixtures
    \/ P_RunGolden
    \/ P_RunFailed
    \/ P_ComputeRunId
    \/ P_PinExpected
    \/ ReturnPin
    \/ InvokeReplay
    \/ R_CheckRoots
    \/ R_Discover
    \/ R_Vector
    \/ R_Report
    \/ ReturnReplay
    \/ InvokeMigrate
    \/ M_EnsureDirs
    \/ M_WritePython
    \/ M_FixturesManifest
    \/ M_ExpectedManifest
    \/ M_MoveLegacy
    \/ M_Purge
    \/ ReturnMigrate

\* The repository before the first command: a request the harness allows or
\* denies; the contract file and the fixtures (case_meta.json possibly
\* missing, or capability_gateway_mock.json not JSON), the fixtures manifest,
\* and the expected manifest or none; the golden directories and the Python
\* files. A denied request comes with the repository without a fault.
RepoInit ==
    /\ request \in {[agent_role |-> r, lane_id |-> "L1", tool_name |-> "T1"] : r \in RoleIds}
    /\ roles = {"R1"}
    /\ lanes_allowed = [l \in {"L1"} |-> {"R1"}]
    /\ lane_tools = [l \in {"L1"} |-> {"T1"}]
    /\ tool_registry = [t \in {"T1"} |-> [enabled |-> PyTrue, implementation_status |-> "implemented"]]
    /\ pc = "run_created"
    /\ h = HarnessLocals("2026-02-23T18:00:00Z", 1, NoRun)
    /\ run_record = build_run_record(request)
    /\ events = <<>>
    /\ lane_ok = FALSE
    /\ lane_reason = PyNone
    /\ allowed = FALSE
    /\ deny_reason = PyNone
    /\ out_files = <<>>
    /\ env_seed = Absent
    /\ out = <<>>
    /\ \E fault \in {"none", "no case_meta.json", "mock is no JSON"}, has_expected \in BOOLEAN :
          /\ request.agent_role = "R2" => (fault = "none" /\ has_expected)
          /\ LET fixtures ==
                    [n \in (IF fault = "no case_meta.json" THEN FixtureNames \ {"case_meta.json"}
                            ELSE FixtureNames) |->
                       IF n = "interview_payload.json"
                       THEN canonical_json_bytes(CHOOSE d \in InterviewDocs : d.facts_summary = "facts-a")
                       ELSE IF n = "case_meta.json"
                       THEN canonical_json_bytes(CHOOSE d \in CaseMetaDocs : TRUE)
                       ELSE IF fault = "mock is no JSON" THEN RawBytes("{ not json")
                       ELSE canonical_json_bytes([note |-> "no calls"])]
                 golden == Tree({GoldenDir, LibDir, GoldenFixturesDir, ExpectedDir, GoldenOutDir},
                                [q \in {PythonFiles[i].path : i \in 1..Len(PythonFiles)} |->
                                   (CHOOSE f \in Range(PythonFiles) : f.path = q).content])
                 names == DOMAIN fixtures \cup {ContractPath, FixturesManifestPath}
                             \cup (IF has_expected THEN {ExpectedManifestPath} ELSE {})
             IN fs = [q \in names \cup DOMAIN golden |->
                        IF q \in DOMAIN golden THEN golden[q]
                        ELSE IF q = ContractPath THEN RawBytes("contract v1")
                        ELSE IF q = FixturesManifestPath
                        THEN manifest_json_bytes([n \in DOMAIN fixtures |-> sha256_bytes(fixtures[n])])
                        ELSE IF q = ExpectedManifestPath
                        THEN manifest_json_bytes(
                                [n \in {"export_bundle.json"} |-> sha256_bytes(RawBytes("old bytes"))])
                        ELSE fixtures[q]]
    /\ mode = "harness"
    /\ inv = 0
    /\ g = GoldenOff
    /\ p = PinOff
    /\ first_run = [done |-> FALSE]
    /\ lib = LibOff
    /\ rp = ReplayOff
    /\ mig = MigrateOff

RepoSpec == RepoInit /\ [][RepoNext]_vars

\* C23: a step that changes the expected manifest, or removes it, is step 4
\* of pin or a hand edit between two commands; a step that creates it is
\* step 4 of pin or the migration's write under --apply, which leaves the
\* empty manifest; no step of run_golden.py (comparing or not), of the replay
\* checker or of the harness changes or creates it.
C23_OnlyPinOverwrites ==
    [][/\ (/\ ExpectedManifestPath \in DOMAIN fs
           /\ \/ ExpectedManifestPath \notin DOMAIN fs'
              \/ fs'[ExpectedManifestPath] # fs[ExpectedManifestPath])
          => \/ mode = "pin" /\ p.pc = "pin_expected"
             \/ mode = "idle" /\ mode' = "idle"
       /\ (ExpectedManifestPath \notin DOMAIN fs /\ ExpectedManifestPath \in DOMAIN fs')
          => \/ mode = "pin" /\ p.pc = "pin_expected"
             \/ /\ mode = "migrate"
                /\ mig.args.apply
                /\ fs'[ExpectedManifestPath] = EMPTY_MANIFEST_JSON
       /\ (mode \in {"run", "replay", "harness"} \/ (mode = "pin" /\ p.pc # "pin_expected"))
          => /\ (ExpectedManifestPath \in DOMAIN fs') = (ExpectedManifestPath \in DOMAIN fs)
             /\ ExpectedManifestPath \in DOMAIN fs
                   => fs'[ExpectedManifestPath] = fs[ExpectedManifestPath]]_vars

\* The migration has run under --apply on a repository with an expected
\* manifest that pin wrote, and has skipped the file.
C23_Witness ==
    /\ mode = "migrate"
    /\ mig.pc = "exit"
    /\ mig.args.apply
    /\ p.pc = "done"
    /\ ExpectedManifestPath \in DOMAIN fs
    /\ fs[ExpectedManifestPath] = manifest_json_bytes(PinnedManifest)
    /\ [skip |-> ExpectedManifestPath] \in Range(mig.actions)

\* The replay checker has frozen the expected directory of the golden
\* commands: the manifest is a vector there and is as it was.
C23_WitnessReplay ==
    /\ mode = "replay"
    /\ rp.pc = "exit"
    /\ rp.args.freeze
    /\ <<"golden_expected_manifest", ".json">> \in Range(rp.finished)
    /\ PathIn(GoldenExpectedDir, <<"golden_expected_manifest", ".expected", ".json">>) \in rp.wrote


Init == HarnessInit /\ GoldenIdle

Next == HarnessNext

\* The authorization harness, one invocation.
Spec == Init /\ [][Next]_vars

\* Lines 257-292 of a second invocation with the command line, the request and
\* the tables of the first, at the same second of the wall clock or a later
\* one: the first invocation's run record, events and files are kept as history.
InvokeAgain ==
    /\ pc = "done"
    /\ ~h.prev.done
    /\ \E clock \in h.clock..Len(WallClock) :
          h' = HarnessLocals(h.args.now_utc, clock,
                             [done |-> TRUE, now_utc |-> h.now_utc, run_record |-> run_record,
                              events |-> events, out_files |-> out_files])
    /\ UNCHANGED <<request, roles, lanes_allowed, lane_tools, tool_registry, gvars, ovars>>
    /\ pc' = "run_created"
    /\ run_record' = build_run_record(request)'
    /\ events' = <<>>
    /\ lane_ok' = FALSE
    /\ lane_reason' = PyNone
    /\ allowed' = FALSE
    /\ deny_reason' = PyNone
    /\ UNCHANGED out_files

\* A request on lane L1, whose tables allow role R1 and tool T1, the tool being
\* enabled and implemented or not; any --now_utc, at any second.
RerunInit ==
    /\ request \in [agent_role : RoleIds \cup {PyNone}, lane_id : {"L1"}, tool_name : ToolIds]
    /\ roles = {"R1"}
    /\ lanes_allowed = [l \in {"L1"} |-> {"R1"}]
    /\ lane_tools = [l \in {"L1"} |-> {"T1"}]
    /\ \E e \in {PyTrue, PyFalse} :
          tool_registry = [t \in {"T1"} |-> [enabled |-> e, implementation_status |-> "implemented"]]
    /\ \E arg \in NowUtcArgs, clock \in 1..Len(WallClock) : h = HarnessLocals(arg, clock, NoRun)
    /\ pc = "run_created"
    /\ run_record = build_run_record(request)
    /\ events = <<>>
    /\ lane_ok = FALSE
    /\ lane_reason = PyNone
    /\ allowed = FALSE
    /\ deny_reason = PyNone
    /\ out_files = <<>>
    /\ GoldenIdle

RerunNext == HarnessNext \/ InvokeAgain

\* The authorization harness invoked twice with the same inputs.
RerunSpec == RerunInit /\ [][RerunNext]_vars

\* The golden commands: up to MaxInvocations of run and pin, one after another.
GoldenSpec == GoldenInit /\ [][GoldenNext]_vars

\* The functions of lib/canonical.py, each called on one input.
LibSpec == LibInit /\ [][LibNext]_vars

(* ---------------------------------------------------------------------- *)
(* Properties of the harness (specification Spec)                          *)
(* ---------------------------------------------------------------------- *)

TerminalStatuses == {"completed", "failed"}

KnownRole == request.agent_role \in roles
KnownLane == request.lane_id \in DOMAIN lanes_allowed
RoleInLane == KnownLane /\ request.agent_role \in lanes_allowed[request.lane_id]

\* C1: lane_authorized succeeds iff the role is known, the lane is known and
\* the role is in the lane's allowed roles; otherwise it is denied with the
\* first failing condition in the order role_not_defined, lane_not_defined,
\* role_not_allowed_for_lane.
C1_LaneAuthorizedDecision ==
    Len(events) >= 2 =>
        LET e == events[2]
        IN /\ e.action_type = "lane_authorized"
           /\ e.outcome \in {"success", "denied"}
           /\ (e.outcome = "success") <=> (KnownRole /\ KnownLane /\ RoleInLane)
           /\ (e.outcome = "success") => e.outcome_reason_bounded = PyNone
           /\ (e.outcome = "denied" /\ ~KnownRole) =>
                 e.outcome_reason_bounded = "role_not_defined"
           /\ (e.outcome = "denied" /\ KnownRole /\ ~KnownLane) =>
                 e.outcome_reason_bounded = "lane_not_defined"
           /\ (e.outcome = "denied" /\ KnownRole /\ KnownLane) =>
                 e.outcome_reason_bounded = "role_not_allowed_for_lane"

\* An unknown role on an unknown lane was denied as role_not_defined.
C1_Witness ==
    /\ Len(events) >= 2
    /\ ~KnownRole
    /\ ~KnownLane
    /\ request.agent_role # PyNone
    /\ events[2].outcome = "denied"
    /\ events[2].outcome_reason_bounded = "role_not_defined"

ToolRegistered == request.tool_name \in DOMAIN tool_registry
ToolInLane ==
    /\ request.lane_id \in DOMAIN lane_tools
    /\ request.tool_name \in lane_tools[request.lane_id]
ToolEnabled == ToolRegistered /\ tool_registry[request.tool_name].enabled = PyTrue
ToolDisabled == ToolRegistered /\ tool_registry[request.tool_name].enabled = PyFalse
ToolImplemented ==
    ToolRegistered /\ tool_registry[request.tool_name].implementation_status = "implemented"

\* C2: tool_allowed succeeds iff lane_authorized succeeded, the tool is
\* registered, in the lane's allowed tools, enabled, and implemented; in every
\* other case (a registered tool with no `enabled` field included) it is denied.
C2_ToolAllowedDecision ==
    Len(events) >= 4 =>
        /\ events[4].action_type = "tool_allowed"
        /\ events[4].outcome \in {"success", "denied"}
        /\ (events[4].outcome = "success") <=>
              /\ events[2].outcome = "success"
              /\ ToolRegistered
              /\ ToolInLane
              /\ ToolEnabled
              /\ ToolImplemented

\* The order in which the denial reasons of tool_allowed are tried.
ToolDenialOrder ==
    <<"lane_not_authorized", "tool_not_registered", "tool_not_allowed_in_lane",
      "tool_disabled", "tool_not_implemented">>

ToolDenialMatches(reason) ==
    CASE reason = "lane_not_authorized" -> events[2].outcome # "success"
      [] reason = "tool_not_registered" -> ~ToolRegistered
      [] reason = "tool_not_allowed_in_lane" -> ~ToolInLane
      [] reason = "tool_disabled" -> ToolDisabled
      [] reason = "tool_not_implemented" -> ~ToolImplemented

DiagnosticFields == {"category", "message", "likely_cause", "suggested_fix", "severity"}

AfterTerminalStep == pc \in {"run_completed", "write", "done"}

\* C4: a denied tool_allowed is followed by tool_denied (denied, not retryable,
\* with a full diagnostic) and the run ends `completed`; an allowed one is
\* followed by tool_executed (failed, TOOL_NOT_IMPLEMENTED) and the run ends
\* `failed`; disabling the tool of an allowed request turns it into a denial.
C4_TerminalAsymmetry ==
    /\ Len(events) >= 5 =>
          LET e5 == events[5]
          IN /\ events[4].outcome = "denied" =>
                   /\ e5.action_type = "tool_denied"
                   /\ e5.outcome = "denied"
                   /\ e5.retryable = FALSE
                   /\ e5.response_hash_sha256 =
                         sha256_hex(denial_response(events[4].outcome_reason_bounded))
                   /\ DiagnosticFields \subseteq
                         DOMAIN e5.response_hash_sha256.sha256_of.diagnostic
                   /\ e5.response_hash_sha256.sha256_of.diagnostic.retryable = FALSE
                   /\ AfterTerminalStep => run_record.status = "completed"
             /\ events[4].outcome = "success" =>
                   /\ e5.action_type = "tool_executed"
                   /\ e5.outcome = "failed"
                   /\ e5.error_code = "TOOL_NOT_IMPLEMENTED"
                   /\ run_record.status = "failed"
    /\ pc = "done" =>
          out_files["run_record.json"][1].status =
              (IF events[4].outcome = "success" THEN "failed" ELSE "completed")
    /\ (Len(events) >= 4 /\ events[4].outcome = "success" /\ ToolEnabled) =>
          LET disabled == [tool_registry EXCEPT ![request.tool_name].enabled = PyFalse]
          IN ~ToolCheckIn(disabled, events[2].outcome = "success",
                          request.tool_name, request.lane_id).allowed

\* A run whose only failing condition is a disabled tool ended `completed`.
C4_Witness ==
    /\ pc = "done"
    /\ events[2].outcome = "success"
    /\ ToolInLane
    /\ ToolDisabled
    /\ ToolImplemented
    /\ events[5].action_type = "tool_denied"
    /\ out_files["run_record.json"][1].status = "completed"

ExpectedActionTypes ==
    <<{"run_created"}, {"lane_authorized"}, {"tool_requested"}, {"tool_allowed"},
      {"tool_denied", "tool_executed"}, {"run_completed"}>>

\* C5: the machine emits exactly six events, in the order run_created,
\* lane_authorized, tool_requested, tool_allowed, tool_denied or tool_executed,
\* run_completed; no step is skipped after a denial (the run only stops once
\* all six are written), and tool_requested always has outcome success.
C5_SixEventsInOrder ==
    /\ Len(events) <= 6
    /\ \A k \in 1..Len(events) : events[k].action_type \in ExpectedActionTypes[k]
    /\ Len(events) >= 3 => events[3].outcome = "success"
    /\ pc \in {"write", "done"} => Len(events) = 6
    /\ pc # "done" => ENABLED Next
    /\ pc = "done" => out_files["audit_ledger.json"] = events

\* A run denied at lane_authorized still went through all six steps.
C5_Witness ==
    /\ pc = "done"
    /\ events[2].outcome = "denied"
    /\ events[3].action_type = "tool_requested"
    /\ Len(out_files["audit_ledger.json"]) = 6

\* C6 (as stated): once the run record has a terminal status, no further audit
\* event is appended.
C6_NoEventAfterTerminal ==
    [][run_record.status \in TerminalStatuses => events' = events]_vars

\* C6 (amended): once the run record has a terminal status the status never
\* changes again, and the only events appended afterwards are the rest of the
\* fixed sequence (tool_executed, then the closing run_completed); after
\* run_completed nothing is appended.
C6_OnlyClosingEventsAfterTerminal ==
    [][run_record.status \in TerminalStatuses =>
          /\ run_record'.status = run_record.status
          /\ \/ events' = events
             \/ /\ Len(events') = Len(events) + 1
                /\ SubSeq(events', 1, Len(events)) = events
                /\ events'[Len(events')].action_type \in {"tool_executed", "run_completed"}
                /\ events # <<>>
                /\ events[Len(events)].action_type # "run_completed"]_vars

\* A failed run was persisted with run_completed as its sixth and last event.
C6_Witness ==
    /\ pc = "done"
    /\ run_record.status = "failed"
    /\ Len(events) = 6
    /\ events[6].action_type = "run_completed"

\* C7: run_completed is the last event emitted and its outcome mirrors the
\* terminal status: success iff `completed`, failed iff `failed`.
C7_RunCompletedMirrorsStatus ==
    /\ \A k \in 1..Len(events) :
          events[k].action_type = "run_completed" => k = Len(events)
    /\ pc \in {"write", "done"} =>
          LET last == events[Len(events)]
          IN /\ last.action_type = "run_completed"
             /\ run_record.status \in TerminalStatuses
             /\ (last.outcome = "success") <=> (run_record.status = "completed")
             /\ (last.outcome = "failed") <=> (run_record.status = "failed")
    /\ pc = "done" =>
          LET ledger == out_files["audit_ledger.json"]
              record == out_files["run_record.json"][1]
          IN /\ ledger[Len(ledger)].action_type = "run_completed"
             /\ (ledger[Len(ledger)].outcome = "success") <=> (record.status = "completed")
             /\ (ledger[Len(ledger)].outcome = "failed") <=> (record.status = "failed")

\* An allowed request: the closing event reports the failed run.
C7_Witness ==
    /\ pc = "done"
    /\ events[4].outcome = "success"
    /\ events[6].outcome = "failed"
    /\ out_files["run_record.json"][1].status = "failed"

\* C8: the event sequence is append-only (every step leaves the events already
\* emitted unchanged and in place) and the event ids are strictly increasing in
\* emission order (001..006).
C8_AppendOnly ==
    [][/\ Len(events') >= Len(events)
       /\ SubSeq(events', 1, Len(events)) = events
       /\ \A k \in 1..Len(events') : events'[k].event_id = k
       /\ \A i, j \in 1..Len(events') :
             i < j => events'[i].event_id < events'[j].event_id]_vars

\* A denied run completed its record after five events were emitted.
C8_Witness ==
    /\ pc = "done"
    /\ run_record.status = "completed"
    /\ Len(events) = 6
    /\ events[1].request_hash_sha256 = sha256_hex([run_record |-> build_run_record(request)])

(* ---------------------------------------------------------------------- *)
(* Properties of the golden commands (specification GoldenSpec)            *)
(* ---------------------------------------------------------------------- *)

\* The run has written all six artifacts (it is at, or past, the comparison).
WroteArtifacts ==
    \/ g.pc \in {"compare", "passed"}
    \/ g.pc = "aborted" /\ g.hashes # <<>>

\* C9: two invocations of the orchestrator on the same contract file, fixtures
\* manifest, fixture files, runner version and seed get the same run id and
\* leave the same bytes in all six artifacts, whatever the output directory
\* held before each of them.
C9_Determinism ==
    (first_run.done /\ first_run.inputs = RunInputs /\ g.pc \in {"compare", "passed", "aborted"}) =>
        /\ WroteArtifacts
        /\ g.run_id = first_run.run_id
        /\ g.run_id \in DOMAIN out
        /\ DOMAIN first_run.artifacts = ArtifactNames
        /\ ArtifactsOf(out[g.run_id]) = first_run.artifacts

\* A second invocation, on the inputs of the first, has written its report
\* into the directory the first one left full.
C9_Witness ==
    /\ first_run.done
    /\ first_run.inv = 1
    /\ inv = 2
    /\ mode = "run"
    /\ g.pc = "compare"
    /\ first_run.inputs = RunInputs

\* C10: the run id is SHA-256 of (contract hash, fixtures-manifest hash, runner
\* version, seed) joined by newlines, and, while the pin command runs, the id it
\* computes after its orchestrator call is the id of the directory the
\* orchestrator wrote (which holds the six artifacts pin then reads).
C10_PinRunIdAgrees ==
    /\ g.run_id # Unbound =>
          g.run_id = sha256_bytes(<<g.contract_sha, g.fixtures_sha, "v1.0.0", g.seed>>)
    /\ (mode = "pin" /\ p.run_id # Unbound) =>
          /\ p.pc \in {"pin_expected", "done"}
          /\ p.run_id = g.run_id
          /\ g.contract_sha = sha256_file(ContractPath)
          /\ g.fixtures_sha = sha256_file(FixturesManifestPath)
          /\ p.run_id \in DOMAIN out
          /\ ArtifactNames \subseteq RegularFiles(out[p.run_id])

\* A pin with GOLDEN_SEED set has found the directory and pinned from it.
C10_Witness ==
    /\ p.pc = "done"
    /\ env_seed = "7"
    /\ p.run_id = g.run_id
    /\ ExpectedManifestPath \in DOMAIN fs
    /\ load_json_bytes(fs[ExpectedManifestPath]).v["hashes.json"] =
          sha256_bytes(out[p.run_id]["hashes.json"].data)

\* run_golden.main() is executing (as a command, or called by pin): the files
\* it read are the files on disk now.
InRunMain == mode = "run" \/ (mode = "pin" /\ p.pc = "in_run_main")

\* The run ended at the comparison: it passed it or was aborted by it.
EndedAtCompare == g.pc = "passed" \/ (g.pc = "aborted" /\ g.at = "compare")

\* C11: if the run's output directory exists before the run, whatever files
\* and subdirectories it holds, the directory exists and is empty from the
\* cleaning until the first artifact is written, and at the comparison it
\* holds the six artifacts of this run and no entry of an earlier run.
C11_CleanSlate ==
    /\ (g.pc \in {"validate", "load", "write"} \/ (g.pc = "aborted" /\ g.at \in {"validate", "load"})) =>
          /\ g.run_id \in DOMAIN out
          /\ DOMAIN out[g.run_id] = {}
    /\ (g.pc = "compare" \/ EndedAtCompare) =>
          /\ DOMAIN out[g.run_id] = ArtifactNames
          /\ RegularFiles(out[g.run_id]) = ArtifactNames
          /\ (g.stale \ ArtifactNames) \cap DOMAIN out[g.run_id] = {}

\* A directory that held a file and a non-empty subdirectory is compared.
C11_Witness ==
    /\ g.pc = "compare"
    /\ ~SkipCompare(g.skip_env)
    /\ {"stale.txt", "sub", "sub/old.json"} \subseteq g.stale

\* The fixtures manifest on disk is well formed and names a path that is not on disk.
NamedFixtureMissing ==
    /\ FixturesManifestPath \in DOMAIN fs
    /\ fs[FixturesManifestPath].enc = "json"
    /\ LET doc == fs[FixturesManifestPath].doc
       IN /\ doc.t = "dict"
          /\ \A k \in DOMAIN doc.v : IsStr(doc.v[k])
          /\ \E k \in DOMAIN doc.v : k \notin DOMAIN fs

\* C12: if a path named in the fixtures manifest is not on disk, the run is
\* aborted by the missing-fixture error of the validation step, and at that
\* abort the output directory holds no file.
C12_MissingFixtureAbortsBeforeWrite ==
    /\ (InRunMain /\ NamedFixtureMissing /\ g.pc \notin {"hash", "clean", "validate"}) =>
          /\ g.pc = "aborted"
          /\ g.error = "MissingFixture"
          /\ g.at = "validate"
    /\ (g.pc = "aborted" /\ g.error = "MissingFixture") =>
          /\ g.run_id \in DOMAIN out
          /\ DOMAIN out[g.run_id] = {}
          /\ g.hashes = <<>>

\* A run over a directory full of earlier output stopped at a missing fixture.
C12_Witness ==
    /\ mode = "run"
    /\ g.pc = "aborted"
    /\ g.error = "MissingFixture"
    /\ "case_meta.json" \notin DOMAIN fs
    /\ g.stale # {}

\* The expected manifest on disk is a flat object of strings whose keys are the
\* regular files of the output directory and whose digests, letter case
\* aside, are the SHA-256 of those files.
ExpectedAgrees ==
    /\ ExpectedManifestPath \in DOMAIN fs
    /\ fs[ExpectedManifestPath].enc = "json"
    /\ LET doc == fs[ExpectedManifestPath].doc
           tree == out[g.run_id]
       IN /\ doc.t = "dict"
          /\ \A k \in DOMAIN doc.v : IsStr(doc.v[k])
          /\ DOMAIN doc.v = {q \in DOMAIN tree : tree[q].kind = "file"}
          /\ \A k \in DOMAIN doc.v :
                doc.v[k].hex = tree[k].data

\* C13: with comparison enabled, a run that gets to the comparison returns
\* zero iff the regular files of the output directory are the keys of the
\* expected manifest and every digest agrees case-insensitively; otherwise it
\* is aborted.
C13_CompareVerdict ==
    (mode = "run" /\ ~SkipCompare(g.skip_env) /\ EndedAtCompare) =>
        /\ g.pc = "passed" <=> ExpectedAgrees
        /\ g.pc # "passed" => (g.pc = "aborted" /\ g.error # PyNone)

\* A run passed against a manifest whose digests are typed in capitals.
C13_Witness ==
    /\ mode = "run"
    /\ ~SkipCompare(g.skip_env)
    /\ g.pc = "passed"
    /\ fs[ExpectedManifestPath].doc.v["hashes.json"].upper

\* C14: when several expected artifacts differ in hash, the GoldenMismatch
\* report names every one of them.
C14_AllMismatchesReported ==
    (mode = "run" /\ g.pc = "aborted" /\ g.error = "GoldenMismatch") =>
        Range(g.detail.files) =
            hash_mismatches(read_manifest_json(ExpectedManifestPath).map, out[g.run_id])

\* C15: when the output directory lacks expected files and holds unexpected
\* ones, the file-set report lists the missing files and the extra files.
C15_BothListsReported ==
    (mode = "run" /\ g.pc = "aborted" /\ g.error = "FileSetMismatch") =>
        LET d == file_set_diff(read_manifest_json(ExpectedManifestPath).map, out[g.run_id])
        IN (d.missing # <<>> /\ d.extra # <<>>) =>
              Range(g.detail.listed) = Range(d.missing) \cup Range(d.extra)

\* The file at `path` is no flat JSON object of strings.
Malformed(path) ==
    /\ path \in DOMAIN fs
    /\ \/ fs[path].enc # "json"
       \/ fs[path].doc.t # "dict"
       \/ \E k \in DOMAIN fs[path].doc.v : ~IsStr(fs[path].doc.v[k])

\* C17 (as stated): whichever manifest is malformed, the run is aborted before
\* any artifact is written to the output directory.
C17_ParseErrorBeforeWrite ==
    (g.pc = "aborted" /\ g.error = "ManifestParseError") =>
        RegularFiles(out[g.run_id]) = {}

\* C17 (amended): a malformed manifest is fatal; a malformed fixtures manifest
\* aborts the run at the validation step, before any artifact is written; a
\* malformed expected manifest aborts it, when comparison is enabled, at the
\* comparison step, after all six artifacts were written.
C17_ParseErrorTiming ==
    /\ (InRunMain /\ Malformed(FixturesManifestPath) /\ g.pc \notin {"hash", "clean", "validate"}) =>
          /\ g.pc = "aborted"
          /\ g.error = "ManifestParseError"
          /\ g.detail.path = FixturesManifestPath
    /\ (mode = "run" /\ Malformed(ExpectedManifestPath) /\ ~SkipCompare(g.skip_env) /\ EndedAtCompare) =>
          /\ g.pc = "aborted"
          /\ g.error = "ManifestParseError"
          /\ g.detail.path = ExpectedManifestPath
    /\ (g.pc = "aborted" /\ g.error = "ManifestParseError") =>
          IF g.detail.path = FixturesManifestPath
          THEN g.at = "validate" /\ DOMAIN out[g.run_id] = {}
          ELSE /\ g.detail.path = ExpectedManifestPath
               /\ g.at = "compare"
               /\ RegularFiles(out[g.run_id]) = ArtifactNames

\* A run was aborted by a malformed expected manifest with its six artifacts
\* on disk.
C17_Witness ==
    /\ mode = "run"
    /\ g.pc = "aborted"
    /\ g.error = "ManifestParseError"
    /\ g.detail.path = ExpectedManifestPath
    /\ RegularFiles(out[g.run_id]) = ArtifactNames

(* ---------------------------------------------------------------------- *)
(* Properties of lib/canonical.py (specification LibSpec)                  *)
(* ---------------------------------------------------------------------- *)

\* The relative paths of the regular files under the directory the check is run on.
FilesUnderRoot == {q \in DOMAIN out[DiffRoot] : out[DiffRoot][q].kind = "file"}

NoRepeats(seq) == \A i, j \in 1..Len(seq) : i # j => seq[i] # seq[j]

\* C16: `missing` is exactly the expected paths with no regular file at that
\* path under the root, `extra` exactly the regular files under the root
\* whose path is no expected key, and both are empty iff the two path sets
\* are equal; expected {a.json, b.json} against a.json alone gives
\* missing=[b.json], extra=[], against a.json, b.json, c.json gives
\* missing=[], extra=[c.json].
C16_DiffCompleteness ==
    lib.pc = "diffed" =>
        /\ Range(lib.missing) = {k \in DOMAIN lib.expected : k \notin FilesUnderRoot}
        /\ Range(lib.extra) = {q \in FilesUnderRoot : q \notin DOMAIN lib.expected}
        /\ NoRepeats(lib.missing) /\ NoRepeats(lib.extra)
        /\ (lib.missing = <<>> /\ lib.extra = <<>>) <=> DOMAIN lib.expected = FilesUnderRoot
        /\ lib.raised.ok <=> DOMAIN lib.expected = FilesUnderRoot
        /\ (DOMAIN lib.expected = {"a.json", "b.json"} /\ FilesUnderRoot = {"a.json"}) =>
              (lib.missing = <<"b.json">> /\ lib.extra = <<>>)
        /\ (DOMAIN lib.expected = {"a.json", "b.json"}
               /\ FilesUnderRoot = {"a.json", "b.json", "c.json"}) =>
              (lib.missing = <<>> /\ lib.extra = <<"c.json">>)

\* Against a tree with a file in a subdirectory and a directory where a file
\* is expected, both lists are non-empty.
C16_Witness ==
    /\ lib.pc = "diffed"
    /\ DOMAIN lib.expected = {"a.json", "c.json"}
    /\ DOMAIN out[DiffRoot] = {"a.json", "c.json", "d", "d/e.json"}
    /\ out[DiffRoot]["c.json"].kind = "dir"
    /\ lib.missing = <<"c.json">>
    /\ lib.extra = <<"d/e.json">>

\* C18: write(m), then load, then write again leaves a file byte-identical
\* to the first written file, whatever the letter case of the digests of m.
C18_ManifestWriteLoadWrite ==
    lib.pc = "rewritten" => fs[ScratchManifestPath] = lib.first

\* C19: the load fails whenever the file is not a flat JSON object of strings
\* (a list, a scalar, an object with a non-string value, no JSON at all);
\* when it succeeds the manifest has exactly the file's keys and each value
\* is the file's value in lower case.
C19_ManifestLoad ==
    lib.pc \in {"read", "rewrite_manifest", "rewritten"} =>
        /\ lib.loaded.ok <=> lib.kind = "flat"
        /\ lib.loaded.ok =>
              LET doc == lib.file.doc.v
              IN /\ DOMAIN lib.loaded.map = DOMAIN doc
                 /\ \A k \in DOMAIN doc :
                       /\ lib.loaded.map[k].hex = doc[k].hex
                       /\ ~lib.loaded.map[k].upper

\* A file with a digest in capitals was loaded.
C19_Witness ==
    /\ lib.pc = "read"
    /\ lib.loaded.ok
    /\ "a.json" \in DOMAIN lib.loaded.map
    /\ lib.file.doc.v["a.json"].upper
    /\ lib.loaded.map["a.json"] = sha256_bytes(RawBytes("left over"))

\* The documents that differ from obj only in the insertion order of the keys
\* of its mappings, at any depth.
RECURSIVE Shuffles(_)
Shuffles(obj) ==
    IF obj.t \in {"dict", "list"} /\ obj.items # <<>>
    THEN LET n == Len(obj.items)
             value(i) == IF obj.t = "dict" THEN obj.items[i][2] ELSE obj.items[i]
             values == {f \in [1..n -> UNION {Shuffles(value(i)) : i \in 1..n}] :
                           \A i \in 1..n : f[i] \in Shuffles(value(i))}
         IN IF obj.t = "dict"
            THEN {PyDict([i \in 1..n |-> <<obj.items[pi[i]][1], f[pi[i]]>>]) :
                     pi \in Permutations(1..n), f \in values}
            ELSE {PyList(f) : f \in values}
    ELSE {obj}

\* C20: encode, decode, encode again gives the bytes of the first encoding;
\* the encoding is the same for every insertion order of the keys at every
\* nesting level, and ends with exactly one newline.
C20_CanonicalRoundTrip ==
    /\ lib.pc \in {"reencode", "reencoded"} => lib.decoded.ok
    /\ lib.pc = "reencoded" => lib.second = lib.first
    /\ lib.pc \in {"decode", "reencode", "reencoded"} =>
          /\ \A other \in Shuffles(lib.obj) : canonical_json_text(other) = lib.first
          /\ Len(lib.first) >= 2
          /\ lib.first[Len(lib.first)] = NL(0)
          /\ "nl" \notin DOMAIN lib.first[Len(lib.first) - 1]

\* A mapping with unsorted keys, holding a sequence that holds a mapping with
\* unsorted keys, was encoded, decoded (to a different document) and encoded.
C20_Witness ==
    /\ lib.pc = "reencoded"
    /\ lib.obj = PyDict(<<<<"c", PyList(<<PyDict(<<<<"c", PyNull>>, <<"a", PyBool(FALSE)>>>>), PyNum(7)>>)>>,
                         <<"a", PyDict(<<<<"b", PyNum(7)>>, <<"a", PyStr("x")>>>>)>>>>)
    /\ lib.decoded.val # lib.obj
    /\ lib.second = lib.first

\* The text cut at its newlines: the tokens before the first newline,
\* between two newlines, and after the last one.
RECURSIVE SplitAtNewlines(_, _, _)
SplitAtNewlines(text, i, line) ==
    IF i > Len(text) THEN <<line>>
    ELSE IF "nl" \in DOMAIN text[i] THEN <<line>> \o SplitAtNewlines(text, i + 1, <<>>)
    ELSE SplitAtNewlines(text, i + 1, Append(line, text[i]))

\* a sorts strictly before b.
Before(a, b) ==
    \E i, j \in 1..Len(StringOrder) : i < j /\ StringOrder[i] = a /\ StringOrder[j] = b

\* The keys of every mapping of the document, at any depth, are in
\* ascending order.
RECURSIVE KeysAscend(_)
KeysAscend(obj) ==
    IF obj.t = "dict"
    THEN /\ \A i \in 1..Len(obj.items) - 1 : Before(obj.items[i][1], obj.items[i + 1][1])
         /\ \A i \in 1..Len(obj.items) : KeysAscend(obj.items[i][2])
    ELSE IF obj.t = "list" THEN \A i \in 1..Len(obj.items) : KeysAscend(obj.items[i])
    ELSE TRUE

\* C21: the line-delimited form of n elements is n lines, the i-th the
\* compact (no newline inside) key-sorted encoding of the i-th element,
\* separated by single newlines, with exactly one newline at the end; for
\* the empty sequence the text is that newline alone.
C21_LineDelimitedForm ==
    lib.pc = "lines_encoded" =>
        LET n == Len(lib.objs)
            parts == SplitAtNewlines(lib.text, 1, <<>>)
        IN /\ lib.text # <<>>
           /\ lib.text[Len(lib.text)] = NL(0)
           /\ Len(parts) = (IF n = 0 THEN 1 ELSE n) + 1
           /\ parts[Len(parts)] = <<>>
           /\ n = 0 => lib.text = <<NL(0)>>
           /\ \A i \in 1..n :
                 /\ parts[i] # <<>>
                 /\ json_loads(parts[i]).ok
                 /\ json_loads(parts[i]).val \in Shuffles(lib.objs[i])
                 /\ KeysAscend(json_loads(parts[i]).val)
           /\ \A i \in 1..Len(lib.text) : "nl" \in DOMAIN lib.text[i] => lib.text[i] = NL(0)

\* Two elements were encoded, the first a mapping with unsorted keys; and
\* the empty sequence was encoded.
C21_Witness ==
    /\ lib.pc = "lines_encoded"
    /\ lib.objs = <<PyDict(<<<<"b", PyNum(7)>>, <<"a", PyStr("x")>>>>), PyList(<<>>)>>
    /\ lib.text = <<Tok("{"), StrTok("a"), Tok(":"), StrTok("x"), Tok(","), StrTok("b"), Tok(":"),
                    NumTok(7), Tok("}"), NL(0), Tok("["), Tok("]"), NL(0)>>

\* C22: a pin that finishes on the contract file, fixture files and seed of
\* the first pin that finished leaves the expected manifest and the fixtures
\* manifest with the content the first one left.
C22_PinIdempotence ==
    (mode = "pin" /\ p.pc = "done" /\ p.first.inputs = PinInputs) =>
        /\ fs[ExpectedManifestPath] = p.first.expected
        /\ fs[FixturesManifestPath] = p.first.fixtures

\* The second of two pins in a row has finished on unchanged inputs; its
\* orchestrator call found the output directory the first one had filled.
C22_Witness ==
    /\ mode = "pin"
    /\ p.pc = "done"
    /\ inv = 2
    /\ p.first.inv = 1
    /\ p.first.inputs = PinInputs
    /\ g.stale # {}

\* The text is 1, true or yes in any letter case, with nothing but whitespace
\* before and after it.
SameLetters(chars, word) ==
    /\ Len(chars) = Len(word)
    /\ \A i \in 1..Len(word) :
          \/ chars[i] = word[i]
          \/ <<chars[i], word[i]>> \in {<<"T", "t">>, <<"R", "r">>, <<"U", "u">>, <<"E", "e">>,
                                        <<"Y", "y">>, <<"S", "s">>}
Suppresses(env) ==
    /\ env.set
    /\ \E i \in 1..Len(env.chars), j \in 1..Len(env.chars) :
          /\ \A k \in 1..Len(env.chars) : (k < i \/ k > j) => env.chars[k] \in {" ", "\t", "\n"}
          /\ \E word \in {<<"1">>, <<"t", "r", "u", "e">>, <<"y", "e", "s">>} :
                SameLetters(SubSeq(env.chars, i, j), word)

\* C24: a call of the orchestrator that gets to the comparison step with
\* GOLDEN_SKIP_COMPARE set to 1, true or yes (any letter case, whitespace
\* around it) loads no expected manifest, makes neither the file-set check nor
\* a hash check, prints the notice and returns zero; with the variable unset
\* or set to anything else the manifest is loaded, and the run returns zero
\* only after all three checks, the manifest agreeing with the directory,
\* without the notice.
C24_SkipCompare ==
    (InRunMain /\ EndedAtCompare) =>
        IF Suppresses(g.skip_env)
        THEN /\ g.pc = "passed"
             /\ g.notice
             /\ g.checks = {}
             /\ g.error = PyNone
        ELSE /\ ~g.notice
             /\ "load" \in g.checks
             /\ g.pc = "passed" => (g.checks = {"load", "file set", "hashes"} /\ ExpectedAgrees)
             /\ ~ExpectedAgrees => (g.pc = "aborted" /\ g.error # PyNone)

\* A run with GOLDEN_SKIP_COMPARE=" Yes\n" returned zero although there is no
\* expected manifest.
C24_Witness ==
    /\ mode = "run"
    /\ g.pc = "passed"
    /\ g.skip_env = EnvText(<<" ", "Y", "e", "s", "\n">>)
    /\ g.notice
    /\ ExpectedManifestPath \notin DOMAIN fs

\* A run with GOLDEN_SKIP_COMPARE="y es" was aborted at the comparison.
C24_WitnessEnforced ==
    /\ mode = "run"
    /\ g.pc = "aborted"
    /\ g.at = "compare"
    /\ g.skip_env = EnvText(<<"y", " ", "e", "s">>)

\* The run record as run_record.json holds it.
PersistedRecord == out_files["run_record.json"][1]

\* A run record that has ended: a terminal status, the completion time, and
\* an error code exactly when it failed.
Ended(record) ==
    /\ record.status \in TerminalStatuses
    /\ record.completed_at_utc # PyNone
    /\ record.error_code # PyNone <=> record.status = "failed"

\* C34: the run record starts as `running` and its status changes exactly once,
\* to `completed` or `failed`: it is `running` up to step 5, every change of the
\* status leaves `running` for a terminal status, and from step 6 on it is
\* terminal; run_record.json holds a record with a terminal status, a
\* completion timestamp, and an error code iff the status is `failed`.
C34_RunRecordLifecycle ==
    /\ [](pc \in {"run_created", "lane_authorized", "tool_requested", "tool_allowed"}
            => run_record.status = "running" /\ run_record.completed_at_utc = PyNone
               /\ run_record.error_code = PyNone)
    /\ [][run_record'.status # run_record.status
            => run_record.status = "running" /\ Ended(run_record')]_vars
    /\ [](pc \in {"run_completed", "write", "done"} => Ended(run_record))
    /\ []("run_record.json" \in DOMAIN out_files
            => Ended(PersistedRecord) /\ PersistedRecord = run_record)

\* A failed run has been written: its record holds TOOL_NOT_IMPLEMENTED.
C34_Witness ==
    /\ pc = "done"
    /\ PersistedRecord.status = "failed"
    /\ PersistedRecord.error_code = "TOOL_NOT_IMPLEMENTED"
    /\ PersistedRecord.completed_at_utc = now_utc

\* A completed run (the tool was denied) has been written without an error code.
C34_WitnessCompleted ==
    /\ pc = "done"
    /\ PersistedRecord.status = "completed"
    /\ PersistedRecord.error_code = PyNone
    /\ \E i \in 1..Len(events) : events[i].action_type = "tool_denied"

\* `python run_golden.py` with the comparison enforced has ended, the command
\* before it was a pin that completed, and the contract file, the fixture
\* files, the seed and the two manifests are as that pin left them.
RunAfterPin ==
    /\ mode = "run"
    /\ g.pc \in {"passed", "aborted"}
    /\ ~Suppresses(g.skip_env)
    /\ p.pc = "done"
    /\ p.first.done
    /\ p.first.inv = inv - 1
    /\ PinInputs = p.first.inputs
    /\ {FixturesManifestPath, ExpectedManifestPath} \subseteq DOMAIN fs
    /\ fs[FixturesManifestPath] = p.first.fixtures
    /\ fs[ExpectedManifestPath] = p.first.expected

\* C36: a run with the comparison enforced that follows a completed pin, with
\* the same seed and the contract and fixture files unchanged, returns zero
\* after all three checks: its output directory holds exactly the six
\* artifacts, and the expected manifest names exactly these six with the
\* SHA-256 of each.
C36_PinThenRunPasses ==
    RunAfterPin =>
        /\ g.pc = "passed"
        /\ g.error = PyNone
        /\ g.checks = {"load", "file set", "hashes"}
        /\ g.run_id = p.run_id
        /\ RegularFiles(out[g.run_id]) = ArtifactNames
        /\ Cardinality(ArtifactNames) = 6
        /\ fs[ExpectedManifestPath]
             = manifest_json_bytes([n \in ArtifactNames |-> sha256_bytes(out[g.run_id][n].data)])

\* Pin, then a run without GOLDEN_SKIP_COMPARE: the run passed.
C36_Witness ==
    /\ RunAfterPin
    /\ g.pc = "passed"
    /\ g.skip_env = EnvUnset
    /\ "hashes" \in g.checks

\* The expected manifest: whether there is such a file, and its bytes.
ExpectedBytes ==
    IF ExpectedManifestPath \in DOMAIN fs
    THEN [there |-> TRUE, bytes |-> fs[ExpectedManifestPath]]
    ELSE [there |-> FALSE]

\* The pin command has ended with the exception run_main() raised.
PinAbortedInRun == p.pc = "aborted" /\ p.at = "in_run_main"

\* C37: a pin whose run_main() raised ends with that exception and never
\* reaches step 4: while the pin command runs, the expected manifest is
\* created or changed only by step 4, which is taken only after run_main()
\* returned and ends the pin as done, and a pin whose run_main() raised takes
\* no step but its abort; so the expected manifest keeps the content it had.
C37_FailedPinKeepsExpected ==
    /\ [](mode = "pin" /\ PinAbortedInRun
            => g.pc = "aborted" /\ g.error # PyNone /\ p.error = g.error)
    /\ [][(mode = "pin" /\ ExpectedBytes' # ExpectedBytes)
            => (p.pc = "pin_expected" /\ g.pc = "passed" /\ p'.pc = "done")]_vars
    /\ [][(mode = "pin" /\ p.pc = "in_run_main" /\ g.pc = "aborted")
            => (PinAbortedInRun' /\ ExpectedBytes' = ExpectedBytes)]_vars
    /\ [][(mode = "pin" /\ p.pc \in {"done", "aborted"}) => (mode' = "idle" /\ fs' = fs)]_vars

\* A pin has ended with the JSONDecodeError of run_main(): step 1 had replaced
\* the fixtures manifest, the expected manifest is the older one.
C37_Witness ==
    /\ mode = "pin"
    /\ PinAbortedInRun
    /\ p.error = "JSONDecodeError"
    /\ p.replaced
    /\ fs[FixturesManifestPath] = manifest_json_bytes([n \in FixtureNames |-> sha256_file(n)])
    /\ ExpectedBytes.there
    /\ ExpectedBytes.bytes
         = manifest_json_bytes([n \in {"export_bundle.json"} |-> sha256_bytes(RawBytes("old bytes"))])

\* The same with no expected manifest before the pin: there is none after it.
C37_WitnessNone ==
    /\ mode = "pin"
    /\ PinAbortedInRun
    /\ p.replaced
    /\ ~ExpectedBytes.there

\* run_main() is past step 7: at the comparison, or ended there.
PastStep7 == InRunMain /\ (g.pc \in {"compare", "passed"} \/ (g.pc = "aborted" /\ g.at = "compare"))

\* The SHA-256 of the four core artifacts as the directory holds them.
ActualHashes(tree) == [n \in Range(CoreArtifacts) |-> sha256_bytes(tree[n].data)]

\* The bytes of the four core artifacts in the directory of this run.
CoreData(trees) == [n \in Range(CoreArtifacts) \cap DOMAIN trees[g.run_id] |-> trees[g.run_id][n]]

\* C38: in every run past step 7 the four core artifacts are regular files of
\* the output directory, and `files` of hashes.json and `outputs` of
\* workflow_report.json both hold, for exactly these four, the SHA-256 of the
\* file as it is in the directory; from the step that hashes them to the end
\* of the run no step changes one of the four.
C38_RecordedHashesAreActual ==
    /\ [](PastStep7 =>
            LET tree == out[g.run_id]
            IN /\ Range(CoreArtifacts) \subseteq RegularFiles(tree)
               /\ {"hashes.json", "workflow_report.json"} \subseteq RegularFiles(tree)
               /\ load_json_bytes(tree["hashes.json"].data).files = ActualHashes(tree)
               /\ load_json_bytes(tree["workflow_report.json"].data).outputs = ActualHashes(tree)
               /\ g.hashes = ActualHashes(tree))
    /\ [][(InRunMain /\ g.pc \in {"hashes", "report", "compare"})
            => CoreData(out') = CoreData(out)]_vars

\* A run is at the comparison, in a directory that held stale entries, with a
\* mocked tool call in tool_calls.jsonl.
C38_Witness ==
    /\ mode = "run"
    /\ g.pc = "compare"
    /\ g.stale # {}
    /\ out[g.run_id]["tool_calls.jsonl"].data.lines # <<>>
    /\ DOMAIN load_json_bytes(out[g.run_id]["hashes.json"].data).files = Range(CoreArtifacts)

(* ---------------------------------------------------------------------- *)
(* Properties of the migration (specification MigrateSpec)                 *)
(* ---------------------------------------------------------------------- *)

\* What the plan of a migration holds when main() prints it: a line for each
\* directory that was missing, one for each of the six files it writes or
\* skips, one for each of the six legacy paths, one for the archive with
\* --purge-archive.
PlanLines ==
    Cardinality({i \in 1..Len(MigrateDirs) : MigrateDirs[i] \notin DOMAIN mig.start_fs})
    + Len(PythonFiles) + 2 + Len(LegacyPaths)
    + (IF mig.args.purge_archive THEN 1 ELSE 0)

\* C35: without --apply, whatever --purge-archive and --overwrite-python say
\* and whatever the golden directory holds, the migration leaves every file
\* and directory as it found it, at every step, and ends with the plan listed.
C35_DryRunChangesNothing ==
    (mode = "migrate" /\ ~mig.args.apply) =>
        /\ fs = mig.start_fs
        /\ mig.pc = "exit" => Len(mig.actions) = PlanLines

\* A dry run with --purge-archive and --overwrite-python on a directory with a
\* legacy file and an archive has ended: it listed the writes, a move and
\* the deletion of the archive, and the archive and the legacy file are there.
C35_Witness ==
    /\ mode = "migrate"
    /\ mig.pc = "exit"
    /\ ~mig.args.apply /\ mig.args.purge_archive /\ mig.args.overwrite_python
    /\ [delete |-> ArchiveRoot] \in Range(mig.actions)
    /\ \E i \in 1..Len(mig.actions) :
          /\ DOMAIN mig.actions[i] = {"move", "to"}
          /\ mig.actions[i].move \in DOMAIN fs
          /\ mig.actions[i].to \in DOMAIN fs
    /\ [write |-> PythonFiles[1].path, overwrites |-> FALSE] \in Range(mig.actions)
    /\ ArchiveRoot \in DOMAIN fs

\* The same command with --apply has moved the file and removed the archive.
C35_WitnessApply ==
    /\ mode = "migrate"
    /\ mig.pc = "exit"
    /\ mig.args.apply /\ mig.args.purge_archive
    /\ ArchiveRoot \in DOMAIN mig.start_fs
    /\ \A q \in DOMAIN fs : q # ArchiveRoot /\ ~IsUnder(q, ArchiveRoot)
    /\ fs # mig.start_fs

(* ---------------------------------------------------------------------- *)
(* Properties of two invocations of the harness (specification RerunSpec)  *)
(* ---------------------------------------------------------------------- *)

\* The second invocation has written its files.
SecondRunDone == pc = "done" /\ h.prev.done

\* The timestamps recorded by an invocation: in its run record and its events.
TimestampsOf(record, evs) ==
    {record.created_at_utc, record.completed_at_utc} \cup
    {evs[i].timestamp_utc : i \in 1..Len(evs)}

\* An event without what it takes from the timestamp: timestamp_utc and, in
\* run_created, the hash of the run record (line 306), which holds the timestamp.
Untimed(e) ==
    [e EXCEPT !.timestamp_utc = PyNone,
              !.request_hash_sha256 = IF e.action_type = "run_created" THEN PyNone ELSE @]

\* C33: two invocations of the harness with the same request, the same tables
\* and the same command line produce the same audit events and the same run
\* record, and so the same two files, timestamps included.
C33_SameInputsSameOutputs ==
    SecondRunDone =>
        /\ events = h.prev.events
        /\ run_record = h.prev.run_record
        /\ out_files = h.prev.out_files

\* What holds of the code: everything but the timestamps and the hash over the
\* run record in the first event is the same in the two invocations, each invocation records one timestamp everywhere, and it
\* is the text of --now_utc (with a final Z) when the option is given and the
\* second the wall clock showed otherwise; so the outputs are the same
\* whenever the option is given.
C33_SameUpToTimestamps ==
    SecondRunDone =>
        /\ TimestampsOf(run_record, events) = {now_utc}
        /\ TimestampsOf(h.prev.run_record, h.prev.events) = {h.prev.now_utc}
        /\ Len(events) = Len(h.prev.events)
        /\ \A i \in 1..Len(events) :
              Untimed(events[i]) = Untimed(h.prev.events[i])
        /\ [run_record EXCEPT !.created_at_utc = PyNone, !.completed_at_utc = PyNone]
             = [h.prev.run_record EXCEPT !.created_at_utc = PyNone, !.completed_at_utc = PyNone]
        /\ h.args.now_utc # PyNone =>
              /\ now_utc \in {h.args.now_utc, h.args.now_utc \o "Z"}
              /\ out_files = h.prev.out_files
        /\ h.args.now_utc = PyNone => now_utc = WallClock[h.clock]

\* Two invocations without --now_utc, a second apart, whose run was allowed
\* and completed: the files differ.
C33_WitnessClock ==
    /\ SecondRunDone
    /\ h.args.now_utc = PyNone
    /\ run_record.status = "completed"
    /\ out_files # h.prev.out_files

\* Two invocations with --now_utc 2026-02-23T18:00:00, a second apart.
C33_WitnessFrozen ==
    /\ SecondRunDone
    /\ h.args.now_utc = "2026-02-23T18:00:00"
    /\ h.clock = 2
    /\ now_utc = "2026-02-23T18:00:00Z"
    /\ out_files = h.prev.out_files

====
